---- MODULE Spec2Model ----
(***************************************************************************)
(* Model of the Ralphy task-orchestration plugin: the checklist (markdown) *)
(* task source, the structured (yaml) task source, the GitManager worktree *)
(* lifecycle and the ParallelExecutor batch scheduler.                     *)
(*                                                                         *)
(* Text is modelled as a sequence of tokens.  A token is one character,    *)
(* except that the two five-character checkbox markers "- [ ]" and "- [x]" *)
(* are one token each: the regular expressions of the code only ever look  *)
(* for these markers as a whole.                                           *)
(***************************************************************************)
EXTENDS Integers, Sequences, FiniteSets, TLC

\* ------------------------------------------------------------------ bounds
MaxLines == 3     \* lines of a checklist document drawn in InitMd
MaxOps == 2       \* operations applied to one checklist document

\* ------------------------------------------------------------------ tokens
TodoMark == "- [ ]"
DoneMark == "- [x]"
SP == " "
NL == "\n"
BackTick == "backtick"        \* the character U+0060
Apostrophe == "apostrophe"    \* the character U+0027

VARIABLES
    \* --- the checklist source on its own
    content,      \* the checklist file (sequence of tokens)
    mdBefore,     \* the checklist file before the last operation
    mdOp,         \* the last checklist operation: "none" or "markComplete"
    mdArg,        \* the title passed to the last operation
    mdOps,        \* number of operations applied so far
    \* --- ParallelExecutor
    config,       \* prdSource, maxParallel, maxIterations
    yamlFile,     \* the structured file, as the task list parseFile() reads
    pc,           \* where run() stands
    allTasks,     \* run(): const allTasks
    groups,       \* runWithGroups(): the groups the for loop has yet to visit
    group,        \* runWithGroups(): const group of the current iteration
    tasks,        \* runBatches(): its argument
    i,            \* runBatches(): the loop variable
    slots,        \* the runAgent() calls of the batch in flight
    results,      \* this.results
    worktrees,    \* the worktree directories that exist under worktreeBase
    merged,       \* the branches mergeBranch() merged into the base branch
    failedMerges, \* handleCompletedBranches(): const failedMerges
    pullRequests, \* the branches createPullRequest() opened a request for
    mergeQueue,   \* handleCompletedBranches(): branches the merge loop has
                  \* yet to visit
    resolveQueue, \* handleCompletedBranches(): branches the conflict loop has
                  \* yet to visit
    mergeInProgress, \* the branch whose merge stopped on conflicts and has not
                  \* been aborted (the repository is mid-merge), or NoMerge
    \* --- history of the run, read by the properties only
    dispatched,   \* every runAgent() call of the run, in dispatch order
    startGroups,  \* title -> group of the tasks remaining when run() began
    preserved,    \* directories cleanupWorktree left because they were dirty
    lastCleanup,  \* the last cleanupWorktree call of the batch in flight
    events,       \* things the environment did during the run so far: failed
                  \* commands, dirty status reports, tasks added by others
    adds,         \* tasks added to the backlog by others during the run
    mergeCalls,   \* every mergeBranch() call of the run, in call order
    resolveAttempts, \* the branches a conflict resolution was set up for
    aborts,       \* every abortMerge() call of the run, in call order
    \* --- the plugin (Controller): const state
    running,      \* state.running
    iteration,    \* state.iteration
    currentTask,  \* state.currentTask, Null for null
    completedBranches, \* state.completedBranches
    headBranch,   \* the branch checked out in the project directory
    \* --- history of the plugin's tools, read by the properties only
    lastCall,     \* the last tool invocation and what it returned
    stopped,      \* whether stopLoop() ran during the run, and at which batch
    thrown,       \* the entry point an error propagated out of, or "none"
    tracker,      \* state.tracker: the ProgressTracker of the session
    \* --- the issue tracker behind GithubTaskSource
    ghIssues,     \* the issues of the repository, in the order gh lists them
    \* --- the options text handed to a tool
    argv,         \* the options, split at white space (parseArgs: const parts)
    \* --- the startLoop() invocations whose steps are followed one by one
    startCalls,   \* per invocation: where it stands and what it did
    \* --- the project's working copy, for createTaskBranch()
    repo          \* its local changes and its stash stack (top first)

mdHist == <<mdBefore, mdOp, mdArg, mdOps>>

loopVars == <<allTasks, groups, group, tasks, i>>

histVars == <<dispatched, startGroups, preserved, lastCleanup>>

gitVars == <<worktrees, merged, failedMerges>>

ctlState == <<running, iteration, currentTask, completedBranches, headBranch>>

ctlVars ==
    <<running, iteration, currentTask, completedBranches, headBranch, lastCall,
      stopped, thrown>>

reconVars ==
    <<pullRequests, mergeQueue, resolveQueue, mergeInProgress, mergeCalls,
      resolveAttempts, aborts>>

runVars ==
    <<config, yamlFile, pc, allTasks, groups, group, tasks, i, slots, results,
      worktrees, merged, failedMerges, dispatched, startGroups, preserved,
      lastCleanup, events, adds, pullRequests, mergeQueue, resolveQueue,
      mergeInProgress, mergeCalls, resolveAttempts, aborts, running,
      iteration, currentTask, completedBranches, headBranch, lastCall,
      stopped, thrown, tracker, ghIssues,
      argv, startCalls, repo>>

vars ==
    <<content, mdBefore, mdOp, mdArg, mdOps, config, yamlFile, pc, allTasks,
      groups, group, tasks, i, slots, results, worktrees, merged,
      failedMerges, dispatched,
      startGroups, preserved, lastCleanup, events, adds, pullRequests,
      mergeQueue, resolveQueue, mergeInProgress, mergeCalls, resolveAttempts,
      aborts, running, iteration, currentTask, completedBranches, headBranch,
      lastCall, stopped, thrown, tracker, ghIssues,
      argv, startCalls, repo>>

\* ------------------------------------------------------- sequence helpers
RECURSIVE JoinLines(_)
JoinLines(ls) ==
    IF ls = <<>> THEN <<>>
    ELSE IF Len(ls) = 1 THEN ls[1]
    ELSE ls[1] \o <<NL>> \o JoinLines(Tail(ls))

\* content.split("\n"): the lines the m flag makes ^ and $ delimit
RECURSIVE SplitLines(_)
SplitLines(s) ==
    IF \A k \in 1..Len(s) : s[k] # NL THEN <<s>>
    ELSE LET k == CHOOSE k \in 1..Len(s) :
                      s[k] = NL /\ \A j \in 1..(k - 1) : s[j] # NL
         IN <<SubSeq(s, 1, k - 1)>> \o SplitLines(SubSeq(s, k + 1, Len(s)))

\* ------------------------------------------------------ utils.ts helpers
\* the characters escapeRegex escapes: . * + ? ^ $ { } ( ) | [ ] \
RegexSpecial ==
    {".", "*", "+", "?", "^", "$", "{", "}", "(", ")", "|", "[", "]", "\\"}

\* text.replace(/[.*+?^${}()|[\]\\]/g, "\\$&")
RECURSIVE escapeRegex(_)
escapeRegex(text) ==
    IF text = <<>> THEN <<>>
    ELSE (IF Head(text) \in RegexSpecial THEN <<"\\", Head(text)>>
          ELSE <<Head(text)>>) \o escapeRegex(Tail(text))

\* The regular expressions markComplete can build: a sequence of atoms, each
\* an escaped character (a literal), an unescaped ordinary character (a
\* literal), an unescaped "." (any character but a line break) or an
\* unescaped "$" (end of line under the m flag).  RegexMatchEnd is the index
\* after the match of pat at position p of s, or 0 when pat does not match.
RECURSIVE RegexMatchEnd(_, _, _)
RegexMatchEnd(pat, s, p) ==
    IF pat = <<>> THEN p
    ELSE IF Head(pat) = "\\" /\ Len(pat) >= 2 THEN
        IF p <= Len(s) /\ s[p] = pat[2]
        THEN RegexMatchEnd(SubSeq(pat, 3, Len(pat)), s, p + 1) ELSE 0
    ELSE IF Head(pat) = "$" THEN
        IF p > Len(s) \/ s[p] = NL
        THEN RegexMatchEnd(Tail(pat), s, p) ELSE 0
    ELSE IF Head(pat) = "." THEN
        IF p <= Len(s) /\ s[p] # NL
        THEN RegexMatchEnd(Tail(pat), s, p + 1) ELSE 0
    ELSE
        IF p <= Len(s) /\ s[p] = Head(pat)
        THEN RegexMatchEnd(Tail(pat), s, p + 1) ELSE 0

\* The replacement patterns of String.prototype.replace: $$ is "$", $& the
\* matched text, $ and a backtick the text before the match, $ and an
\* apostrophe the text after it; any
\* other "$" stays as it is (the expression has no capture groups).
RECURSIVE ExpandReplacement(_, _, _, _)
ExpandReplacement(repl, matched, pre, post) ==
    IF repl = <<>> THEN <<>>
    ELSE IF Head(repl) = "$" /\ Len(repl) >= 2 /\ repl[2] \in {"$", "&", BackTick, Apostrophe}
    THEN (CASE repl[2] = "$" -> <<"$">>
            [] repl[2] = "&" -> matched
            [] repl[2] = BackTick -> pre
            [] repl[2] = Apostrophe -> post)
         \o ExpandReplacement(SubSeq(repl, 3, Len(repl)), matched, pre, post)
    ELSE <<Head(repl)>> \o ExpandReplacement(Tail(repl), matched, pre, post)

\* --------------------------------------------- MarkdownTaskSource (pure)
\* /^- \[ \] .+$/ on one line
IsTodoTaskLine(l) == Len(l) >= 3 /\ l[1] = TodoMark /\ l[2] = SP
\* /^- \[x\] .+$/ on one line
IsDoneTaskLine(l) == Len(l) >= 3 /\ l[1] = DoneMark /\ l[2] = SP
\* /^- \[ \]/ on one line
IsTodoLine(l) == Len(l) >= 1 /\ l[1] = TodoMark
\* /^- \[x\]/ on one line
IsDoneLine(l) == Len(l) >= 1 /\ l[1] = DoneMark

\* m.replace(/^- \[ \] /, "")
StripMarker(l) == SubSeq(l, 3, Len(l))

RECURSIVE MapStrip(_)
MapStrip(ls) ==
    IF ls = <<>> THEN <<>> ELSE <<StripMarker(Head(ls))>> \o MapStrip(Tail(ls))

MdGetRemainingTasks(c) == MapStrip(SelectSeq(SplitLines(c), IsTodoTaskLine))

MdCountRemaining(c) == Len(SelectSeq(SplitLines(c), IsTodoLine))

MdCountCompleted(c) == Len(SelectSeq(SplitLines(c), IsDoneLine))

\* getAllTasks(): the incomplete tasks, then the completed ones
MdGetAllTasks(c) ==
    LET todo == SelectSeq(SplitLines(c), IsTodoTaskLine)
        done == SelectSeq(SplitLines(c), IsDoneTaskLine)
    IN [k \in 1..Len(todo) |->
           [title |-> StripMarker(todo[k]), completed |-> FALSE]]
       \o [k \in 1..Len(done) |->
              [title |-> StripMarker(done[k]), completed |-> TRUE]]

\* new RegExp(`^- \\[ \\] ${escaped}`, "m"): the source of the expression
MdMarkPattern(task) == <<TodoMark, SP>> \o escapeRegex(task)

\* the start of the leftmost match of ^pat in c (m flag, no g flag), or 0
MdFirstMatch(pat, c) ==
    LET starts == {p \in 1..(Len(c) + 1) :
                      /\ (p = 1 \/ c[p - 1] = NL)
                      /\ RegexMatchEnd(pat, c, p) # 0}
    IN IF starts = {} THEN 0
       ELSE CHOOSE p \in starts : \A q \in starts : p <= q

\* content.replace(regex, `- [x] ${task}`)
MdMarkCompleteText(c, task) ==
    LET pat == MdMarkPattern(task)
        p == MdFirstMatch(pat, c)
    IN IF p = 0 THEN c
       ELSE LET e == RegexMatchEnd(pat, c, p)
                pre == SubSeq(c, 1, p - 1)
                matched == SubSeq(c, p, e - 1)
                post == SubSeq(c, e, Len(c))
            IN pre \o ExpandReplacement(<<DoneMark, SP>> \o task,
                                        matched, pre, post) \o post

\* -------------------------------------------------- checklist documents
\* the titles used as arguments and in documents: plain ones, one that is a
\* prefix of another, and ones holding replacement patterns
MdTitles ==
    {<<"a">>, <<"b">>, <<"a", "b">>, <<"$", "$">>, <<"$", BackTick>>}

MdLineChoices ==
    {<<TodoMark, SP>> \o t : t \in MdTitles}
        \cup {<<DoneMark, SP>> \o t : t \in {<<"a">>, <<"b">>}}
        \cup {<<"#">>, <<TodoMark>>}

RECURSIVE SeqsUpTo(_, _)
SeqsUpTo(S, n) ==
    IF n = 0 THEN {<<>>}
    ELSE LET shorter == SeqsUpTo(S, n - 1)
         IN shorter \cup {Append(s, x) : s \in shorter, x \in S}

MdDocs == {JoinLines(ls) : ls \in SeqsUpTo(MdLineChoices, MaxLines)}

\* state.currentTask = null
Null == <<>>

\* state.config.baseBranch, as getCurrentBranch() set it
BaseBranch == <<"main">>

\* no merge is in progress in the repository
NoMerge == <<>>

\* a working copy without local changes and with an empty stash
CleanRepo == [changes |-> {}, stash |-> <<>>]

\* ------------------------------------------------------ ProgressTracker
\* new ProgressTracker(): the counters and the branch list (startTime, the
\* clock reading, is left out)
NewTracker ==
    [inputTokens |-> 0, outputTokens |-> 0, actualCost |-> 0, durationMs |-> 0,
     completedBranches |-> <<>>]

\* reset()
TrackerReset(t) == NewTracker

\* an addTokens that stores the last amounts instead of adding them
TrackerAddTokens_Overwrite(t, input, output) ==
    [t EXCEPT !.inputTokens = input, !.outputTokens = output]

\* addTokens(input, output)
TrackerAddTokens(t, input, output) ==
    [t EXCEPT !.inputTokens = @ + input, !.outputTokens = @ + output]

\* addCost(cost)
TrackerAddCost(t, cost) == [t EXCEPT !.actualCost = @ + cost]

\* addDuration(ms)
TrackerAddDuration(t, ms) == [t EXCEPT !.durationMs = @ + ms]

\* addBranch(branchName)
TrackerAddBranch(t, branchName) ==
    [t EXCEPT !.completedBranches = Append(@, branchName)]

\* the executor before run() is called, with nothing on disk
RunIdle(prdSource) ==
    /\ config = [prdSource |-> prdSource, maxParallel |-> 3, maxIterations |-> 0,
                 createPr |-> FALSE, parallel |-> FALSE,
                 branchPerTask |-> FALSE]
    /\ yamlFile = <<>>
    /\ pc = "idle"
    /\ allTasks = <<>>
    /\ groups = <<>>
    /\ group = 0
    /\ tasks = <<>>
    /\ i = 0
    /\ slots = <<>>
    /\ results = <<>>
    /\ worktrees = {}
    /\ merged = {}
    /\ failedMerges = <<>>
    /\ dispatched = <<>>
    /\ startGroups = <<>>
    /\ preserved = {}
    /\ lastCleanup = [called |-> FALSE]
    /\ events = 0
    /\ adds = 0
    /\ pullRequests = {}
    /\ mergeQueue = <<>>
    /\ resolveQueue = <<>>
    /\ mergeInProgress = NoMerge
    /\ mergeCalls = <<>>
    /\ resolveAttempts = <<>>
    /\ aborts = <<>>
    /\ running = FALSE
    /\ iteration = 0
    /\ currentTask = Null
    /\ completedBranches = <<>>
    /\ headBranch = BaseBranch
    /\ lastCall = [op |-> "none"]
    /\ stopped = [called |-> FALSE]
    /\ thrown = "none"
    /\ tracker = NewTracker

InitMd ==
    /\ content \in MdDocs
    /\ mdBefore = content
    /\ mdOp = "none"
    /\ mdArg = <<>>
    /\ mdOps = 0
    /\ RunIdle("markdown")
    /\ ghIssues = <<>>
    /\ argv = <<>>
    /\ startCalls = <<>>
    /\ repo = CleanRepo

\* MarkdownTaskSource.markComplete(task): read, replace, write
MdMarkComplete(task) ==
    /\ mdOps < MaxOps
    /\ content' = MdMarkCompleteText(content, task)
    /\ mdBefore' = content
    /\ mdOp' = "markComplete"
    /\ mdArg' = task
    /\ mdOps' = mdOps + 1
    /\ UNCHANGED runVars

NextMd == \E t \in MdTitles : MdMarkComplete(t)

SpecMd == InitMd /\ [][NextMd]_vars

\* ------------------------------------------------ more utils.ts helpers
SlugMax == 50

UpperChars ==
    <<"A", "B", "C", "D", "E", "F", "G", "H", "I", "J", "K", "L", "M",
      "N", "O", "P", "Q", "R", "S", "T", "U", "V", "W", "X", "Y", "Z">>

LowerChars ==
    <<"a", "b", "c", "d", "e", "f", "g", "h", "i", "j", "k", "l", "m",
      "n", "o", "p", "q", "r", "s", "t", "u", "v", "w", "x", "y", "z">>

Digits == {"0", "1", "2", "3", "4", "5", "6", "7", "8", "9"}

\* c.toLowerCase()
ToLower(c) ==
    IF \E k \in 1..Len(UpperChars) : UpperChars[k] = c
    THEN LowerChars[CHOOSE k \in 1..Len(UpperChars) : UpperChars[k] = c]
    ELSE c

IsSlugChar(c) == c \in Digits \/ \E k \in 1..Len(LowerChars) : LowerChars[k] = c

\* .toLowerCase().replace(/[^a-z0-9]+/g, "-")
RECURSIVE SlugDashes(_)
SlugDashes(text) ==
    IF text = <<>> THEN <<>>
    ELSE IF IsSlugChar(ToLower(Head(text)))
    THEN <<ToLower(Head(text))>> \o SlugDashes(Tail(text))
    ELSE IF Len(text) >= 2 /\ ~IsSlugChar(ToLower(text[2]))
    THEN SlugDashes(Tail(text))
    ELSE <<"-">> \o SlugDashes(Tail(text))

\* .replace(/^-|-$/g, "")
SlugStrip(s) ==
    LET a == IF s # <<>> /\ Head(s) = "-" THEN Tail(s) ELSE s
    IN IF a # <<>> /\ a[Len(a)] = "-" THEN SubSeq(a, 1, Len(a) - 1) ELSE a

slugify(text) ==
    LET s == SlugStrip(SlugDashes(text))
    IN SubSeq(s, 1, IF Len(s) < SlugMax THEN Len(s) ELSE SlugMax)

Whitespace == {SP, NL, "\t", "\r"}

\* String.prototype.trim
RECURSIVE TrimStart(_)
TrimStart(s) ==
    IF s # <<>> /\ Head(s) \in Whitespace THEN TrimStart(Tail(s)) ELSE s

RECURSIVE TrimEnd(_)
TrimEnd(s) ==
    IF s # <<>> /\ s[Len(s)] \in Whitespace
    THEN TrimEnd(SubSeq(s, 1, Len(s) - 1)) ELSE s

Trim(s) == TrimEnd(TrimStart(s))

Min(a, b) == IF a <= b THEN a ELSE b

\* ---------------------------------------- YamlTaskSource on the task list
\* The structured file is held as the task list parseFile() returns for it.
\* The optional field parallel_group is <<n>> when the key is there and
\* Undefined when it is not.
Undefined == <<>>

\* t.parallel_group ?? 0
YamlGroupOf(t) ==
    IF t.parallel_group = Undefined THEN 0 ELSE t.parallel_group[1]

RECURSIVE YamlTitles(_)
YamlTitles(ts) ==
    IF ts = <<>> THEN <<>> ELSE <<Head(ts).title>> \o YamlTitles(Tail(ts))

YamlGetRemainingTasks(data) ==
    YamlTitles(SelectSeq(data, LAMBDA t : ~t.completed))

\* countRemaining(): data.tasks.filter(t => !t.completed).length
YamlCountRemaining(data) == Len(SelectSeq(data, LAMBDA t : ~t.completed))

\* countCompleted(): data.tasks.filter(t => t.completed).length
YamlCountCompleted(data) == Len(SelectSeq(data, LAMBDA t : t.completed))

\* a filter on the group alone, which keeps completed tasks
YamlGetTasksByGroup_AnyState(data, g) ==
    YamlTitles(SelectSeq(data, LAMBDA t : YamlGroupOf(t) = g))

YamlGetTasksByGroup(data, g) ==
    YamlTitles(SelectSeq(data, LAMBDA t : ~t.completed /\ YamlGroupOf(t) = g))

\* the same elements, largest first
RECURSIVE SortDescending(_)
SortDescending(S) ==
    IF S = {} THEN <<>>
    ELSE LET m == CHOOSE x \in S : \A y \in S : x >= y
         IN <<m>> \o SortDescending(S \ {m})

\* Array.from(set).sort((a, b) => a - b)
RECURSIVE SortAscending(_)
SortAscending(S) ==
    IF S = {} THEN <<>>
    ELSE LET m == CHOOSE x \in S : \A y \in S : x <= y
         IN <<m>> \o SortAscending(S \ {m})

YamlGetParallelGroups(data) ==
    SortAscending({YamlGroupOf(data[k]) :
                      k \in {j \in 1..Len(data) : ~data[j].completed}})

\* data.tasks.find(t => t.title === task), then taskItem.completed = true
YamlMarkCompleteData(data, task) ==
    LET hits == {k \in 1..Len(data) : data[k].title = task}
    IN IF hits = {} THEN data
       ELSE LET k == CHOOSE x \in hits : \A y \in hits : x <= y
            IN [data EXCEPT ![k].completed = TRUE]

\* ------------------------------------------ the structured file as text
\* A document is a sequence of characters, as for the checklist file.  The
\* words the parser compares whole ('tasks', 'title', 'completed',
\* 'parallel_group', 'true', 'false') are one token each.
MaxYamlLines == 4   \* lines of a structured document drawn in InitYaml
MaxYamlOps == 1     \* operations applied to one structured document

DQ == "\""

StartsWith(s, p) == Len(s) >= Len(p) /\ SubSeq(s, 1, Len(p)) = p

EndsWith(s, p) == Len(s) >= Len(p) /\ SubSeq(s, Len(s) - Len(p) + 1, Len(s)) = p

\* s.substring(n)
Substring(s, n) == SubSeq(s, n + 1, Len(s))

\* s.indexOf(c) + 1, and 0 when c is not in s
IndexOf(s, c) ==
    IF \A k \in 1..Len(s) : s[k] # c THEN 0
    ELSE CHOOSE k \in 1..Len(s) : s[k] = c /\ \A j \in 1..(k - 1) : s[j] # c

\* parseValue(value): trim, then drop one pair of matching outer quotes
parseValue(value) ==
    LET v == Trim(value)
    IN IF \/ StartsWith(v, <<DQ>>) /\ EndsWith(v, <<DQ>>)
          \/ StartsWith(v, <<Apostrophe>>) /\ EndsWith(v, <<Apostrophe>>)
       THEN SubSeq(v, 2, Len(v) - 1)
       ELSE v

DigitValue(c) ==
    CASE c = "0" -> 0 [] c = "1" -> 1 [] c = "2" -> 2 [] c = "3" -> 3
      [] c = "4" -> 4 [] c = "5" -> 5 [] c = "6" -> 6 [] c = "7" -> 7
      [] c = "8" -> 8 [] c = "9" -> 9

DigitChar(d) == <<"0", "1", "2", "3", "4", "5", "6", "7", "8", "9">>[d + 1]

\* the value of the longest prefix of s made of decimal digits, from acc
RECURSIVE DigitPrefixValue(_, _)
DigitPrefixValue(s, acc) ==
    IF s = <<>> \/ Head(s) \notin Digits THEN acc
    ELSE DigitPrefixValue(Tail(s), acc * 10 + DigitValue(Head(s)))

\* parseInt(value, 10) || 0: leading white space, an optional sign, then
\* decimal digits; NaN (no digit) becomes 0
ParseIntOrZero(value) ==
    LET v == TrimStart(value)
        signed == v # <<>> /\ Head(v) \in {"-", "+"}
        body == IF signed THEN Tail(v) ELSE v
        n == DigitPrefixValue(body, 0)
    IN IF signed /\ Head(v) = "-" THEN 0 - n ELSE n

\* `${n}` for an integer n (below 10^21 in magnitude, where the text is
\* the plain decimal numeral)
RECURSIVE NaturalToString(_)
NaturalToString(n) ==
    IF n < 10 THEN <<DigitChar(n)>>
    ELSE Append(NaturalToString(n \div 10), DigitChar(n % 10))

NumberToString(n) ==
    IF n < 0 THEN <<"-">> \o NaturalToString(0 - n) ELSE NaturalToString(n)

\* currentTask = { title: '', completed: false }
NewYamlTask == [title |-> <<>>, completed |-> FALSE, parallel_group |-> Undefined]

\* the parser before the first line: no task list, no current task, not yet
\* in the tasks section.  cur is <<>> for null and <<task>> otherwise.
YamlParseStart == [tasks |-> <<>>, cur |-> <<>>, inTasks |-> FALSE]

\* if (currentTask && currentTask.title) result.tasks.push(currentTask)
YamlPushCurrent(st) ==
    IF st.cur # <<>> /\ st.cur[1].title # <<>>
    THEN Append(st.tasks, st.cur[1]) ELSE st.tasks

\* one turn of the loop over the lines of parseSimpleYaml
YamlParseLine(st, line) ==
    LET trimmed == Trim(line)
    IN IF trimmed = <<>> \/ StartsWith(trimmed, <<"#">>) THEN st
       ELSE IF trimmed = <<"tasks", ":">> THEN [st EXCEPT !.inTasks = TRUE]
       ELSE IF ~st.inTasks THEN st
       ELSE IF StartsWith(trimmed, <<"-", SP>>)
       THEN LET restOfLine == Trim(Substring(trimmed, 2))
                task == IF StartsWith(restOfLine, <<"title", ":">>)
                        THEN [NewYamlTask EXCEPT
                                 !.title = parseValue(Substring(restOfLine, 2))]
                        ELSE NewYamlTask
            IN [st EXCEPT !.tasks = YamlPushCurrent(st), !.cur = <<task>>]
       ELSE IF st.cur # <<>> /\ IndexOf(trimmed, ":") > 0
       THEN LET colonIndex == IndexOf(trimmed, ":")
                key == Trim(SubSeq(trimmed, 1, colonIndex - 1))
                value == Trim(Substring(trimmed, colonIndex))
            IN IF key = <<"title">>
               THEN [st EXCEPT !.cur[1].title = parseValue(value)]
               ELSE IF key = <<"completed">>
               THEN [st EXCEPT !.cur[1].completed = (value = <<"true">>)]
               ELSE IF key = <<"parallel_group">>
               THEN [st EXCEPT !.cur[1].parallel_group =
                                   <<ParseIntOrZero(value)>>]
               ELSE st
       ELSE st

RECURSIVE YamlParseLines(_, _)
YamlParseLines(st, lines) ==
    IF lines = <<>> THEN st
    ELSE YamlParseLines(YamlParseLine(st, Head(lines)), Tail(lines))

\* parseSimpleYaml(content).tasks
parseSimpleYaml(c) == YamlPushCurrent(YamlParseLines(YamlParseStart, SplitLines(c)))

\* YamlTaskSource.parseFile(): an empty or unreadable file has no tasks
YamlParseFile(c) == IF c = <<>> THEN <<>> ELSE parseSimpleYaml(c)

\* the lines written for one task
YamlTaskText(task) ==
    <<SP, SP, "-", SP, "title", ":", SP, DQ>> \o task.title \o <<DQ, NL>>
        \o <<SP, SP, SP, SP, "completed", ":", SP,
             IF task.completed THEN "true" ELSE "false", NL>>
        \o (IF task.parallel_group # Undefined
            THEN <<SP, SP, SP, SP, "parallel_group", ":", SP>>
                     \o NumberToString(task.parallel_group[1]) \o <<NL>>
            ELSE <<>>)

RECURSIVE YamlTasksText(_)
YamlTasksText(data) ==
    IF data = <<>> THEN <<>>
    ELSE YamlTaskText(Head(data)) \o YamlTasksText(Tail(data))

\* a serializer that never writes the parallel_group line
stringifyYaml_NoGroup(data) ==
    <<"tasks", ":", NL>>
        \o YamlTasksText([k \in 1..Len(data) |->
                             [data[k] EXCEPT !.parallel_group = Undefined]])

\* stringifyYaml(data)
stringifyYaml(data) == <<"tasks", ":", NL>> \o YamlTasksText(data)

\* the titles that documents hold and operations name: a plain one, one
\* with a colon, one ending in a double quote, and one no document holds
YamlTextTitles ==
    {<<"a">>, <<"b", ":", "c">>, <<"q", DQ>>, <<"z">>}

YamlLineChoices ==
    { <<"tasks", ":">>,
      <<"-", SP, "title", ":", SP, "a">>,
      <<SP, SP, "-", SP, "title", ":", SP, DQ, "b", ":", "c", DQ>>,
      <<"-", SP, "title", ":", SP, Apostrophe, "q", DQ, Apostrophe>>,
      <<SP, SP, "title", ":", SP, "q", DQ>>,
      <<SP, SP, "completed", ":", SP, "true">>,
      <<SP, SP, "parallel_group", ":", SP, "1", "0">>,
      <<"-", SP, "x">> }

YamlDocs == {JoinLines(ls) : ls \in SeqsUpTo(YamlLineChoices, MaxYamlLines)}

InitYaml ==
    /\ content \in YamlDocs
    /\ mdBefore = content
    /\ mdOp = "none"
    /\ mdArg = <<>>
    /\ mdOps = 0
    /\ RunIdle("yaml")
    /\ ghIssues = <<>>
    /\ argv = <<>>
    /\ startCalls = <<>>
    /\ repo = CleanRepo

\* a read of the file by one of the query methods: parseFile()
YamlRead ==
    /\ mdOps < MaxYamlOps
    /\ yamlFile' = YamlParseFile(content)
    /\ mdBefore' = content
    /\ mdOp' = "parseFile"
    /\ mdArg' = <<>>
    /\ mdOps' = mdOps + 1
    /\ UNCHANGED <<content, config, pc, loopVars, slots, results, gitVars,
                   histVars, events, adds, reconVars, ctlVars>>
    /\ UNCHANGED <<tracker, ghIssues, argv, startCalls, repo>>

\* YamlTaskSource.markComplete(task): parse, set the flag, serialize, write
YamlMarkComplete(task) ==
    /\ mdOps < MaxYamlOps
    /\ content' = stringifyYaml(YamlMarkCompleteData(YamlParseFile(content), task))
    /\ mdBefore' = content
    /\ mdOp' = "markComplete"
    /\ mdArg' = task
    /\ mdOps' = mdOps + 1
    /\ UNCHANGED runVars

NextYaml ==
    \/ YamlRead
    \/ \E t \in YamlTextTitles : YamlMarkComplete(t)

SpecYaml == InitYaml /\ [][NextYaml]_vars

\* ------------------------------------------------------------ GitManager
\* `${worktreeBase}/agent-${agentNum}`: a directory is named by its number
WorktreeDir(agentNum) == agentNum

\* `ralphy/agent-${agentNum}-${slugify(task)}`
WorktreeBranch(task, agentNum) == <<agentNum, slugify(task)>>

NoBranch == <<>>

\* What `git status --porcelain` can answer: the command throws, or prints
\* nothing (clean), or prints one line per changed path.
StatusTexts == {<<>>, <<SP, "M", SP, "f", NL>>}

StatusResults ==
    {[ok |-> FALSE, text |-> <<>>]} \cup {[ok |-> TRUE, text |-> t] : t \in StatusTexts}

\* status.trim() is truthy
IsDirty(status) == status.ok /\ Trim(status.text) # <<>>

\* cleanupWorktree without the check for uncommitted changes
cleanupWorktree_NoDirtyCheck(status, removeOk) ==
    IF ~status.ok THEN FALSE ELSE removeOk

\* GitManager.cleanupWorktree: whether the directory is removed, given the
\* answer of the status query and whether `git worktree remove -f` succeeds
cleanupWorktree(status, removeOk) ==
    IF ~status.ok THEN FALSE
    ELSE IF Trim(status.text) # <<>> THEN FALSE
    ELSE removeOk

\* -------------------------------------------------------- ParallelExecutor
MaxTasks == 3     \* tasks of the backlog when run() is called
MaxBelowZero == 3 \* how far below zero the loop variable i is followed
MaxEvents == 1    \* failed commands, dirty status reports and tasks added
                  \* by others during one run, taken together

ParallelChoices == {1, 2}
IterationChoices == {0, 1, 2}
GroupChoices == {Undefined, <<1>>}
AddGroupChoices == {Undefined, <<1>>}

Configs ==
    [prdSource : {"markdown", "yaml"}, maxParallel : ParallelChoices,
     maxIterations : IterationChoices, createPr : BOOLEAN,
     parallel : {TRUE}, branchPerTask : {FALSE}]

TaskTitle(n) == <<"t", ToString(n)>>

AddedTitle(n) == <<"x", ToString(n)>>

MdBacklog(m) ==
    JoinLines([k \in 1..m |-> <<TodoMark, SP>> \o TaskTitle(k)])

\* a title that differs from TaskTitle(1) and has the same slug
SameSlugTitle == <<"T", "1">>

\* the titles the k-th task of a structured backlog can have
YamlTitleChoices(k) ==
    IF k = 2 THEN {TaskTitle(2), SameSlugTitle} ELSE {TaskTitle(k)}

YamlBacklogs(m) ==
    {[k \in 1..m |-> [title |-> t[k], completed |-> FALSE,
                      parallel_group |-> g[k]]] :
        g \in [1..m -> GroupChoices],
        t \in {f \in [1..m -> {TaskTitle(k) : k \in 1..m} \cup {SameSlugTitle}] :
                  \A k \in 1..m : f[k] \in YamlTitleChoices(k)}}

IsYaml == config.prdSource = "yaml"

\* this.taskSource.getRemainingTasks()
SourceRemaining ==
    IF IsYaml THEN YamlGetRemainingTasks(yamlFile)
    ELSE MdGetRemainingTasks(content)

\* the backlog file of the configured source holds up to n pending tasks
Backlog(n) ==
    \E m \in 0..n :
        IF config.prdSource = "yaml"
        THEN content = <<>> /\ yamlFile \in YamlBacklogs(m)
        ELSE content = MdBacklog(m) /\ yamlFile = <<>>

\* the plugin after construction and an executor not yet run
ExecutorIdle ==
    /\ mdBefore = <<>>
    /\ mdOp = "none"
    /\ mdArg = <<>>
    /\ mdOps = 0
    /\ pc = "idle"
    /\ allTasks = <<>>
    /\ groups = <<>>
    /\ group = 0
    /\ tasks = <<>>
    /\ i = 0
    /\ slots = <<>>
    /\ results = <<>>
    /\ worktrees = {}
    /\ merged = {}
    /\ failedMerges = <<>>
    /\ dispatched = <<>>
    /\ startGroups = <<>>
    /\ preserved = {}
    /\ lastCleanup = [called |-> FALSE]
    /\ events = 0
    /\ adds = 0
    /\ pullRequests = {}
    /\ mergeQueue = <<>>
    /\ resolveQueue = <<>>
    /\ mergeInProgress = NoMerge
    /\ mergeCalls = <<>>
    /\ resolveAttempts = <<>>
    /\ aborts = <<>>
    /\ running = FALSE
    /\ iteration = 0
    /\ currentTask = Null
    /\ completedBranches = <<>>
    /\ headBranch = BaseBranch
    /\ lastCall = [op |-> "none"]
    /\ stopped = [called |-> FALSE]
    /\ thrown = "none"
    /\ tracker = NewTracker
    /\ ghIssues = <<>>
    /\ startCalls = <<>>
    /\ repo = CleanRepo

Init ==
    /\ config \in Configs
    /\ Backlog(MaxTasks)
    /\ argv = <<>>
    /\ ExecutorIdle

\* What startLoop() meets before it sets the running flag:
\*   "ok"          the backlog file is found, progress.txt exists or is written
\*   "noPrd"       fileExists(prdPath) is false: startLoop returns a message
\*   "writeThrows" progress.txt is missing and Bun.write() throws
StartOutcomes == {"ok", "noPrd", "writeThrows"}

\* startLoop(options) with config.parallel, up to new ParallelExecutor(...)
StartLoop(outcome) ==
    /\ pc = "idle"
    /\ config.parallel
    /\ outcome # "ok" => events < MaxEvents
    /\ events' = IF outcome = "ok" THEN events ELSE events + 1
    /\ IF running
       THEN /\ pc' = "done"
            /\ UNCHANGED <<ctlState, thrown>>
       ELSE CASE outcome = "noPrd" ->
                   /\ pc' = "done"
                   /\ UNCHANGED <<ctlState, thrown>>
              [] outcome = "writeThrows" ->
                   /\ pc' = "thrown"
                   /\ thrown' = "start"
                   /\ UNCHANGED ctlState
              [] outcome = "ok" ->
                   /\ running' = TRUE
                   /\ iteration' = 0
                   /\ completedBranches' = <<>>
                   /\ pc' = "run"
                   /\ UNCHANGED <<currentTask, headBranch, thrown>>
    /\ tracker' = IF ~running /\ outcome = "ok"
                  THEN TrackerReset(tracker) ELSE tracker
    /\ lastCall' = [op |-> "start"]
    /\ UNCHANGED <<content, mdHist, config, yamlFile, loopVars, slots, results,
                   gitVars, histVars, adds, reconVars, stopped>>
    /\ UNCHANGED <<ghIssues, argv, startCalls, repo>>

\* run(): the snapshot, the empty check, mkdir -p of the worktree base
\* (mkdirOk is FALSE when the command throws: the error leaves run() and
\* startLoop(), which has no try around executor.run())
Run(mkdirOk) ==
    /\ pc = "run"
    /\ (SourceRemaining = <<>> => mkdirOk)
    /\ ~mkdirOk => events < MaxEvents
    /\ events' = IF mkdirOk THEN events ELSE events + 1
    /\ allTasks' = SourceRemaining
    /\ startGroups' =
          IF IsYaml
          THEN LET rem == SelectSeq(yamlFile, LAMBDA t : ~t.completed)
               IN [k \in 1..Len(rem) |->
                      [title |-> rem[k].title, group |-> YamlGroupOf(rem[k])]]
          ELSE [k \in 1..Len(SourceRemaining) |->
                      [title |-> SourceRemaining[k], group |-> 0]]
    /\ pc' = IF SourceRemaining = <<>> THEN "returned"
             ELSE IF mkdirOk THEN "started" ELSE "thrown"
    /\ thrown' = IF SourceRemaining # <<>> /\ ~mkdirOk THEN "run" ELSE thrown
    /\ UNCHANGED <<content, mdHist, config, yamlFile, groups, group, tasks, i,
                   slots, results, gitVars, dispatched, preserved,
                   lastCleanup, adds, reconVars, ctlState, lastCall, stopped>>
    /\ UNCHANGED <<tracker, ghIssues, argv, startCalls, repo>>

\* runWithGroups(): const groups = await source.getParallelGroups()
RunWithGroups ==
    /\ pc = "started"
    /\ IsYaml
    /\ groups' = YamlGetParallelGroups(yamlFile)
    /\ pc' = "groupLoop"
    /\ UNCHANGED <<content, mdHist, config, yamlFile, allTasks, group, tasks,
                   i, slots, results, gitVars, histVars, events,
                   adds,
                   reconVars, ctlVars>>
    /\ UNCHANGED <<tracker, ghIssues, argv, startCalls, repo>>

\* run(): await this.runBatches(allTasks)
RunUngrouped ==
    /\ pc = "started"
    /\ ~IsYaml
    /\ tasks' = allTasks
    /\ i' = 0
    /\ pc' = "batchLoop"
    /\ UNCHANGED <<content, mdHist, config, yamlFile, allTasks, groups, group,
                   slots, results, gitVars, histVars, events, adds,
                   reconVars, ctlVars>>
    /\ UNCHANGED <<tracker, ghIssues, argv, startCalls, repo>>

\* runWithGroups(): one iteration of the for loop, up to runBatches(tasks)
GroupNext ==
    /\ pc = "groupLoop"
    /\ groups # <<>>
    /\ LET ts == YamlGetTasksByGroup(yamlFile, Head(groups))
       IN /\ group' = Head(groups)
          /\ groups' = Tail(groups)
          /\ IF ts = <<>>
             THEN pc' = "groupLoop" /\ UNCHANGED <<tasks, i>>
             ELSE pc' = "batchLoop" /\ tasks' = ts /\ i' = 0
    /\ UNCHANGED <<content, mdHist, config, yamlFile, allTasks, slots, results,
                   gitVars, histVars, events, adds,
                   reconVars, ctlVars>>
    /\ UNCHANGED <<tracker, ghIssues, argv, startCalls, repo>>

\* runWithGroups(): the for loop ends
GroupsEnd ==
    /\ pc = "groupLoop"
    /\ groups = <<>>
    /\ pc' = "baseCleanup"
    /\ UNCHANGED <<content, mdHist, config, yamlFile, loopVars, slots, results,
                   gitVars, histVars, events, adds,
                   reconVars, ctlVars>>
    /\ UNCHANGED <<tracker, ghIssues, argv, startCalls, repo>>

\* a slice that takes one task too many: tasks.slice(i, i + maxParallel + 1)
BatchSlice_OneTooMany(ts, start, n) ==
    SubSeq(ts, start + 1, Min(start + n + 1, Len(ts)))

\* the slice in reverse order: tasks.slice(i, i + n).reverse()
BatchSlice_Reversed(ts, start, n) ==
    LET e == Min(start + n, Len(ts))
    IN [k \in 1..(e - start) |-> ts[e + 1 - k]]

\* a slice that starts over at the first task: tasks.slice(0, i + n)
BatchSlice_FromFirst(ts, start, n) == SubSeq(ts, 1, Min(start + n, Len(ts)))

\* a slice that takes every task from i on: tasks.slice(i)
BatchSlice_WholeRest(ts, start, n) == SubSeq(ts, start + 1, Len(ts))

\* Array.prototype.slice: an index below zero counts from the end, and the
\* index is kept within 0..len
SliceIndex(k, len) ==
    IF k < 0 THEN (IF len + k < 0 THEN 0 ELSE len + k) ELSE Min(k, len)

\* tasks.slice(i, i + this.config.maxParallel)
BatchSlice(ts, start, n) ==
    SubSeq(ts, SliceIndex(start, Len(ts)) + 1, SliceIndex(start + n, Len(ts)))

\* the agentNum of runAgent(task, i + idx + 1), idx counted from 0
AgentNumber(start, idx) == start + idx + 1

\* this.config.maxIterations > 0 && this.results.length >= maxIterations
MaxIterationsReached(res, maxIterations) ==
    maxIterations > 0 /\ Len(res) >= maxIterations

\* where control goes when runBatches() returns
AfterBatches == IF IsYaml THEN "groupLoop" ELSE "baseCleanup"

BatchCount ==
    IF dispatched = <<>> THEN 0 ELSE dispatched[Len(dispatched)].batch

\* runBatches(): one batch is sliced and its runAgent() calls are started
Dispatch ==
    /\ pc = "batchLoop"
    /\ i < Len(tasks)
    /\ LET batch == BatchSlice(tasks, i, config.maxParallel)
       IN /\ slots' = [idx \in 1..Len(batch) |->
                         [task |-> batch[idx], agentNum |-> AgentNumber(i, idx - 1),
                          id |-> Len(dispatched) + idx, st |-> "creating",
                          success |-> FALSE, branch |-> NoBranch, buf |-> <<>>]]
          /\ dispatched' = dispatched \o
                [idx \in 1..Len(batch) |->
                    [task |-> batch[idx], agentNum |-> AgentNumber(i, idx - 1),
                     group |-> group, batch |-> BatchCount + 1,
                     resolvedBefore |-> Len(results)]]
    /\ pc' = "flight"
    /\ UNCHANGED <<content, mdHist, config, yamlFile, loopVars, results,
                   gitVars, startGroups, preserved, lastCleanup, events, adds,
                   reconVars, ctlVars>>
    /\ UNCHANGED <<tracker, ghIssues, argv, startCalls, repo>>

\* runBatches(): the for loop ends because i >= tasks.length
BatchesEnd ==
    /\ pc = "batchLoop"
    /\ i >= Len(tasks)
    /\ pc' = AfterBatches
    /\ UNCHANGED <<content, mdHist, config, yamlFile, loopVars, slots, results,
                   gitVars, histVars, events, adds,
                   reconVars, ctlVars>>
    /\ UNCHANGED <<tracker, ghIssues, argv, startCalls, repo>>

\* slot k of the batch stands at st.  The runAgent() calls of a batch go on
\* after Promise.all has rejected: nothing cancels them.
SlotIn(k, st) ==
    pc \in {"flight", "thrown"} /\ k \in 1..Len(slots) /\ slots[k].st = st

Worktree(k) == [dir |-> WorktreeDir(slots[k].agentNum), id |-> slots[k].id]

\* rm -rf of one directory
RemoveDir(wts, dir) == {w \in wts : w.dir # dir}

\* the slots whose createWorktree() call has commands on the shared
\* repository in flight or still to issue
InCreateWorktree ==
    {k \in 1..Len(slots) : slots[k].st \in {"creating", "adding"}}

\* runAgent(): gitManager.createWorktree(task, agentNum, ...), first part:
\* git worktree prune, git branch -D (errors ignored) and git branch.  The
\* call starts inside batch.map(), so its first command is in flight as soon
\* as the slot is dispatched.  ok is FALSE when prune or git branch throws:
\* createWorktree returns null and runAgent returns the failed result.
CreateWorktreeBranch(k, ok) ==
    /\ SlotIn(k, "creating")
    /\ ~ok => events < MaxEvents
    /\ events' = IF ok THEN events ELSE events + 1
    /\ slots' = [slots EXCEPT ![k].st = IF ok THEN "adding" ELSE "resolved"]
    /\ UNCHANGED <<content, mdHist, config, yamlFile, pc, loopVars, results,
                   gitVars, histVars, adds, reconVars, ctlVars>>
    /\ UNCHANGED <<tracker, ghIssues, argv, startCalls, repo>>

\* createWorktree(), second part: rm -rf of the directory (errors ignored)
\* and git worktree add.  ok is FALSE when git worktree add throws.
CreateWorktreeAdd(k, ok) ==
    /\ SlotIn(k, "adding")
    /\ ~ok => events < MaxEvents
    /\ events' = IF ok THEN events ELSE events + 1
    /\ worktrees' =
          IF ok
          THEN RemoveDir(worktrees, WorktreeDir(slots[k].agentNum))
                  \cup {Worktree(k)}
          ELSE RemoveDir(worktrees, WorktreeDir(slots[k].agentNum))
    /\ slots' =
          IF ok
          THEN [slots EXCEPT ![k].st = "delegated",
                             ![k].branch = WorktreeBranch(slots[k].task,
                                                          slots[k].agentNum)]
          ELSE [slots EXCEPT ![k].st = "resolved"]
    /\ UNCHANGED <<content, mdHist, merged, failedMerges, config, yamlFile, pc,
                   loopVars, results, histVars, adds, reconVars, ctlVars>>
    /\ UNCHANGED <<tracker, ghIssues, argv, startCalls, repo>>

\* runAgent(): the files are copied, the agent runs, result.success = true,
\* createPullRequest() when config.createPr.  prOk says whether the push and
\* `gh pr create` succeed (createPullRequest returns null otherwise).
Delegate(k, prOk) ==
    /\ SlotIn(k, "delegated")
    /\ ~config.createPr => prOk
    /\ ~prOk => events < MaxEvents
    /\ events' = IF prOk THEN events ELSE events + 1
    /\ pullRequests' = IF config.createPr /\ prOk
                       THEN pullRequests \cup {slots[k].branch}
                       ELSE pullRequests
    /\ slots' = [slots EXCEPT ![k].st = "succeeded", ![k].success = TRUE]
    /\ UNCHANGED <<content, mdHist, config, yamlFile, pc, loopVars, results,
                   gitVars, histVars, adds, mergeQueue, resolveQueue,
                   mergeInProgress, mergeCalls, resolveAttempts, aborts,
                   ctlVars>>
    /\ UNCHANGED <<tracker, ghIssues, argv, startCalls, repo>>

\* markComplete(): await readFile(...) / await this.parseFile()
MarkCompleteRead(k) ==
    /\ SlotIn(k, "succeeded")
    /\ slots' = [slots EXCEPT ![k].st = "marking",
                              ![k].buf = IF IsYaml THEN yamlFile ELSE content]
    /\ UNCHANGED <<content, mdHist, config, yamlFile, pc, loopVars, results,
                   gitVars, histVars, events, adds,
                   reconVars, ctlVars>>
    /\ UNCHANGED <<tracker, ghIssues, argv, startCalls, repo>>

\* markComplete(): the change and await writeFile(...).  writeOk is FALSE
\* when Bun.write() throws: writeFile, markComplete and runAgent have no
\* try around it, so the slot's promise rejects.
MarkCompleteWrite(k, writeOk) ==
    /\ SlotIn(k, "marking")
    /\ ~writeOk => events < MaxEvents
    /\ events' = IF writeOk THEN events ELSE events + 1
    /\ IF ~writeOk THEN UNCHANGED <<content, yamlFile>>
       ELSE IF IsYaml
       THEN /\ yamlFile' = YamlMarkCompleteData(slots[k].buf, slots[k].task)
            /\ UNCHANGED content
       ELSE /\ content' = MdMarkCompleteText(slots[k].buf, slots[k].task)
            /\ UNCHANGED yamlFile
    /\ slots' = [slots EXCEPT ![k].st = IF writeOk THEN "cleanup"
                                        ELSE "rejected",
                              ![k].buf = <<>>]
    /\ UNCHANGED <<mdHist, config, pc, loopVars, results, gitVars, histVars,
                   adds, reconVars, ctlVars>>
    /\ UNCHANGED <<tracker, ghIssues, argv, startCalls, repo>>

\* runAgent(): await this.gitManager.cleanupWorktree(worktree.dir)
CleanupWorktree(k, status, removeOk) ==
    /\ SlotIn(k, "cleanup")
    /\ (~status.ok \/ IsDirty(status)) => removeOk
    /\ (~status.ok \/ IsDirty(status) \/ ~removeOk) => events < MaxEvents
    /\ events' = IF ~status.ok \/ IsDirty(status) \/ ~removeOk
                 THEN events + 1 ELSE events
    /\ worktrees' = IF cleanupWorktree(status, removeOk)
                    THEN RemoveDir(worktrees, Worktree(k).dir)
                    ELSE worktrees
    /\ preserved' = IF IsDirty(status) /\ Worktree(k) \in worktrees
                    THEN preserved \cup {Worktree(k)} ELSE preserved
    /\ lastCleanup' = [called |-> TRUE, status |-> status,
                       removed |-> Worktree(k) \in worktrees
                                      /\ Worktree(k) \notin worktrees']
    /\ slots' = [slots EXCEPT ![k].st = "resolved"]
    /\ UNCHANGED <<content, mdHist, merged, failedMerges, config, yamlFile, pc,
                   loopVars, results,
                   dispatched, startGroups, adds,
                   reconVars, ctlVars>>
    /\ UNCHANGED <<tracker, ghIssues, argv, startCalls, repo>>

AllResolved == \A k \in 1..Len(slots) : slots[k].st = "resolved"

\* runBatches(): Promise.all resolves, the results are pushed, the
\* max-iterations check
Join ==
    /\ pc = "flight"
    /\ AllResolved
    /\ results' = results \o
          [k \in 1..Len(slots) |->
              [task |-> slots[k].task, success |-> slots[k].success,
               branch |-> slots[k].branch]]
    /\ slots' = <<>>
    /\ IF MaxIterationsReached(results', config.maxIterations)
       THEN pc' = AfterBatches /\ UNCHANGED i
       ELSE /\ i + config.maxParallel >= 0 - MaxBelowZero
            /\ pc' = "batchLoop" /\ i' = i + config.maxParallel
    /\ lastCleanup' = [called |-> FALSE]
    /\ UNCHANGED <<content, mdHist, config, yamlFile, allTasks, groups, group,
                   tasks, gitVars, dispatched, startGroups, preserved,
                   events, adds,
                   reconVars, ctlVars>>
    /\ UNCHANGED <<tracker, ghIssues, argv, startCalls, repo>>

\* runBatches(): Promise.all rejects because a slot's promise rejected; the
\* error leaves runBatches(), run() and startLoop(), none of which catches
\* it, and state.running = false (after executor.run()) is not reached
BatchRejects ==
    /\ pc = "flight"
    /\ \E k \in 1..Len(slots) : slots[k].st = "rejected"
    /\ pc' = "thrown"
    /\ thrown' = "run"
    /\ UNCHANGED <<content, mdHist, config, yamlFile, loopVars, slots, results,
                   gitVars, histVars, events, adds, reconVars, ctlState,
                   lastCall, stopped>>
    /\ UNCHANGED <<tracker, ghIssues, argv, startCalls, repo>>

\* run(): rm -rf ${this.worktreeBase}, in a try/catch
CleanupWorktreeBase(ok) ==
    /\ pc = "baseCleanup"
    /\ ~ok => events < MaxEvents
    /\ events' = IF ok THEN events ELSE events + 1
    /\ worktrees' = IF ok THEN {} ELSE worktrees
    /\ pc' = "reconcile"
    /\ UNCHANGED <<content, mdHist, merged, failedMerges, config, yamlFile,
                   loopVars, slots, results,
                   histVars, adds,
                   reconVars, ctlVars>>
    /\ UNCHANGED <<tracker, ghIssues, argv, startCalls, repo>>

\* the branches of all results, without the filter on success and branch
SuccessfulBranches_Unfiltered == [k \in 1..Len(results) |-> results[k].branch]

\* const successfulBranches = this.results.filter(r => r.success && r.branch)
\*                                        .map(r => r.branch)
SuccessfulBranches ==
    LET ok == SelectSeq(results, LAMBDA r : r.success /\ r.branch # NoBranch)
    IN [k \in 1..Len(ok) |-> ok[k].branch]

\* run(): await this.handleCompletedBranches(), up to the first merge: it
\* returns when there is no successful branch or when config.createPr (the
\* branches are only listed), and enters the merge loop otherwise
HandleCompletedBranches ==
    /\ pc = "reconcile"
    /\ IF SuccessfulBranches = <<>> \/ config.createPr
       THEN pc' = "returned" /\ UNCHANGED mergeQueue
       ELSE pc' = "merging" /\ mergeQueue' = SuccessfulBranches
    /\ UNCHANGED <<content, mdHist, config, yamlFile, loopVars, slots, results,
                   gitVars, histVars, events, adds, pullRequests, resolveQueue,
                   mergeInProgress, mergeCalls, resolveAttempts, aborts,
                   ctlVars>>
    /\ UNCHANGED <<tracker, ghIssues, argv, startCalls, repo>>

\* What one mergeBranch() call can do:
\*   "ok"         checkout, merge and branch -d succeed
\*   "error"      git checkout throws, or git merge throws without starting
\*                a merge; the repository is unchanged
\*   "conflict"   git merge stops on conflicts and throws; the repository is
\*                left mid-merge
\*   "deleteFail" the merge succeeds and git branch -d throws
\* While a merge is in progress git checkout refuses to run (the index has
\* unmerged entries), so the only outcome is "error".
MergeOutcomes ==
    IF mergeInProgress # NoMerge THEN {"error"}
    ELSE {"ok", "error", "conflict", "deleteFail"}

\* GitManager.mergeBranch: its return value
mergeBranch(outcome) == outcome = "ok"

\* GitManager.mergeBranch: whether git merge --no-edit completed, so that the
\* base branch now holds the branch's commits
MergeCompletes(outcome) == outcome \in {"ok", "deleteFail"}

\* handleCompletedBranches(): one iteration of the merge loop
MergeBranch(outcome) ==
    /\ pc = "merging"
    /\ mergeQueue # <<>>
    /\ outcome \in MergeOutcomes
    /\ LET branch == Head(mergeQueue)
           forced == mergeInProgress # NoMerge
       IN /\ (outcome # "ok" /\ ~forced) => events < MaxEvents
          /\ events' = IF outcome # "ok" /\ ~forced
                       THEN events + 1 ELSE events
          /\ mergeCalls' = Append(mergeCalls,
                               [branch |-> branch, outcome |-> outcome,
                                during |-> mergeInProgress,
                                returned |-> mergeBranch(outcome),
                                baseChanged |-> MergeCompletes(outcome)])
          /\ merged' = IF MergeCompletes(outcome)
                       THEN merged \cup {branch} ELSE merged
          /\ mergeInProgress' = IF outcome = "conflict"
                                THEN branch ELSE mergeInProgress
          /\ failedMerges' = IF mergeBranch(outcome) THEN failedMerges
                             ELSE Append(failedMerges, branch)
    /\ mergeQueue' = Tail(mergeQueue)
    /\ UNCHANGED <<content, mdHist, config, yamlFile, pc, loopVars, slots,
                   results, worktrees, histVars, adds, pullRequests,
                   resolveQueue, resolveAttempts, aborts,
                   ctlVars>>
    /\ UNCHANGED <<tracker, ghIssues, argv, startCalls, repo>>

\* handleCompletedBranches(): the merge loop ends; if (failedMerges.length > 0)
MergesEnd ==
    /\ pc = "merging"
    /\ mergeQueue = <<>>
    /\ IF failedMerges # <<>>
       THEN pc' = "resolving" /\ resolveQueue' = failedMerges
       ELSE pc' = "returned" /\ UNCHANGED resolveQueue
    /\ UNCHANGED <<content, mdHist, config, yamlFile, loopVars, slots, results,
                   gitVars, histVars, events, adds, pullRequests, mergeQueue,
                   mergeInProgress, mergeCalls, resolveAttempts, aborts,
                   ctlVars>>
    /\ UNCHANGED <<tracker, ghIssues, argv, startCalls, repo>>

\* GitManager.getConflictedFiles: whether it returns a non-empty list.  The
\* files with unmerged entries are those of the merge in progress; when the
\* command throws the list is empty.
HasConflictedFiles(listOk) == listOk /\ mergeInProgress # NoMerge

\* GitManager.abortMerge: the merge in progress afterwards (errors ignored)
abortMerge(abortOk) == IF abortOk THEN NoMerge ELSE mergeInProgress

\* handleCompletedBranches(): one iteration of the conflict loop:
\* getConflictedFiles(), the merge prompt when there are conflicts, and
\* abortMerge()
ResolveConflicts(listOk, abortOk) ==
    /\ pc = "resolving"
    /\ resolveQueue # <<>>
    /\ mergeInProgress = NoMerge => (listOk /\ abortOk)
    /\ LET faults == (IF listOk THEN 0 ELSE 1) + (IF abortOk THEN 0 ELSE 1)
       IN /\ events + faults <= MaxEvents
          /\ events' = events + faults
    /\ resolveAttempts' = IF HasConflictedFiles(listOk)
                          THEN Append(resolveAttempts, Head(resolveQueue))
                          ELSE resolveAttempts
    /\ aborts' = Append(aborts, [branch |-> Head(resolveQueue),
                                  during |-> mergeInProgress])
    /\ mergeInProgress' = abortMerge(abortOk)
    /\ resolveQueue' = Tail(resolveQueue)
    /\ UNCHANGED <<content, mdHist, config, yamlFile, pc, loopVars, slots,
                   results, gitVars, histVars, adds, pullRequests, mergeQueue,
                   mergeCalls, ctlVars>>
    /\ UNCHANGED <<tracker, ghIssues, argv, startCalls, repo>>

\* handleCompletedBranches(): the conflict loop ends, the report is printed
\* and run() returns
ResolveEnd ==
    /\ pc = "resolving"
    /\ resolveQueue = <<>>
    /\ pc' = "returned"
    /\ UNCHANGED <<content, mdHist, config, yamlFile, loopVars, slots, results,
                   gitVars, histVars, events, adds, reconVars, ctlVars>>
    /\ UNCHANGED <<tracker, ghIssues, argv, startCalls, repo>>

\* startLoop(): executor.run() has returned; state.running = false and the
\* summary is returned
StartLoopReturn ==
    /\ pc = "returned"
    /\ running' = FALSE
    /\ pc' = "done"
    /\ UNCHANGED <<content, mdHist, config, yamlFile, loopVars, slots, results,
                   gitVars, histVars, events, adds, reconVars, iteration,
                   currentTask, completedBranches, headBranch, lastCall,
                   stopped, thrown>>
    /\ UNCHANGED <<tracker, ghIssues, argv, startCalls, repo>>

\* GitManager.returnToBaseBranch: the branch checked out afterwards
\* (checkoutOk is FALSE when git checkout throws; the error is ignored)
returnToBaseBranch(checkoutOk) == IF checkoutOk THEN BaseBranch ELSE headBranch

\* whether executor.run() is in progress
RunInProgress ==
    pc \in {"run", "started", "groupLoop", "batchLoop", "flight", "baseCleanup",
            "reconcile", "merging", "resolving", "returned"}

\* stopLoop(), invoked through the ralphy_stop tool while startLoop() awaits
\* executor.run()
StopLoop(checkoutOk) ==
    /\ RunInProgress
    /\ events < MaxEvents
    /\ events' = events + 1
    /\ ~config.branchPerTask => checkoutOk
    /\ IF ~running
       THEN UNCHANGED <<running, currentTask, headBranch, stopped>>
       ELSE /\ running' = FALSE
            /\ currentTask' = Null
            /\ headBranch' = IF config.branchPerTask
                             THEN returnToBaseBranch(checkoutOk)
                             ELSE headBranch
            /\ stopped' = [called |-> TRUE, batch |-> BatchCount]
    /\ lastCall' = [op |-> "stop"]
    /\ UNCHANGED <<content, mdHist, config, yamlFile, pc, loopVars, slots,
                   results, gitVars, histVars, adds, reconVars, iteration,
                   completedBranches, thrown>>
    /\ UNCHANGED <<tracker, ghIssues, argv, startCalls, repo>>

\* Someone else (the agent, the user) appends a pending task to the backlog
\* file while run() is in progress: between the snapshot and the next read,
\* or while a batch is in flight (run() reads the file at no other time).
ExternalAdd(g) ==
    /\ pc \in {"started", "flight"}
    /\ events < MaxEvents
    /\ events' = events + 1
    /\ adds' = adds + 1
    /\ IF IsYaml
       THEN /\ yamlFile' = Append(yamlFile,
                  [title |-> AddedTitle(adds + 1), completed |-> FALSE,
                   parallel_group |-> g])
            /\ UNCHANGED content
       ELSE /\ g = Undefined
            /\ content' = content \o (IF content = <<>> THEN <<>> ELSE <<NL>>)
                             \o <<TodoMark, SP>> \o AddedTitle(adds + 1)
            /\ UNCHANGED yamlFile
    /\ UNCHANGED <<mdHist, config, pc, loopVars, slots, results, gitVars,
                   histVars,
                   reconVars, ctlVars>>
    /\ UNCHANGED <<tracker, ghIssues, argv, startCalls, repo>>

Next ==
    \/ \E outcome \in StartOutcomes : StartLoop(outcome)
    \/ \E mkdirOk \in BOOLEAN : Run(mkdirOk)
    \/ RunWithGroups
    \/ RunUngrouped
    \/ GroupNext
    \/ GroupsEnd
    \/ Dispatch
    \/ BatchesEnd
    \/ \E k \in 1..Len(slots), ok \in BOOLEAN : CreateWorktreeBranch(k, ok)
    \/ \E k \in 1..Len(slots), ok \in BOOLEAN : CreateWorktreeAdd(k, ok)
    \/ \E k \in 1..Len(slots), prOk \in BOOLEAN : Delegate(k, prOk)
    \/ \E k \in 1..Len(slots) : MarkCompleteRead(k)
    \/ \E k \in 1..Len(slots), writeOk \in BOOLEAN :
          MarkCompleteWrite(k, writeOk)
    \/ \E k \in 1..Len(slots), status \in StatusResults, removeOk \in BOOLEAN :
          CleanupWorktree(k, status, removeOk)
    \/ Join
    \/ BatchRejects
    \/ \E ok \in BOOLEAN : CleanupWorktreeBase(ok)
    \/ HandleCompletedBranches
    \/ \E outcome \in {"ok", "error", "conflict", "deleteFail"} :
          MergeBranch(outcome)
    \/ MergesEnd
    \/ \E listOk \in BOOLEAN, abortOk \in BOOLEAN :
          ResolveConflicts(listOk, abortOk)
    \/ ResolveEnd
    \/ StartLoopReturn
    \/ \E checkoutOk \in BOOLEAN : StopLoop(checkoutOk)
    \/ \E g \in AddGroupChoices : ExternalAdd(g)

Spec == Init /\ [][Next]_vars

\* ------------------------------------------- the plugin's one-task tools
MaxIterationCount == 2   \* state.iteration in the sequential session

\* the sequential session: config.parallel is false, the checklist source
SeqConfigs ==
    [prdSource : {"markdown"}, maxParallel : {3}, maxIterations : {0},
     createPr : {FALSE}, parallel : {FALSE}, branchPerTask : BOOLEAN]

\* checklist files of up to MaxTasks task lines, each pending or done
SeqDocs ==
    UNION {{JoinLines([k \in 1..m |-> <<mk[k], SP>> \o TaskTitle(k)]) :
               mk \in [1..m -> {TodoMark, DoneMark}]} : m \in 0..MaxTasks}

\* the task argument of ralphy_next: none, a task of the file, another text
SpecificTasks == {Null, TaskTitle(2), <<"z">>}

\* the plugin after construction, in a project whose backlog is a checklist
SeqSession ==
    /\ content \in SeqDocs
    /\ config \in SeqConfigs
    /\ pc = "seq"
    /\ mdBefore = content
    /\ mdOp = "none"
    /\ mdArg = <<>>
    /\ mdOps = 0
    /\ yamlFile = <<>>
    /\ allTasks = <<>>
    /\ groups = <<>>
    /\ group = 0
    /\ tasks = <<>>
    /\ i = 0
    /\ slots = <<>>
    /\ results = <<>>
    /\ worktrees = {}
    /\ merged = {}
    /\ failedMerges = <<>>
    /\ dispatched = <<>>
    /\ startGroups = <<>>
    /\ preserved = {}
    /\ lastCleanup = [called |-> FALSE]
    /\ events = 0
    /\ adds = 0
    /\ pullRequests = {}
    /\ mergeQueue = <<>>
    /\ resolveQueue = <<>>
    /\ mergeInProgress = NoMerge
    /\ mergeCalls = <<>>
    /\ resolveAttempts = <<>>
    /\ aborts = <<>>
    /\ running = FALSE
    /\ iteration = 0
    /\ currentTask = Null
    /\ completedBranches = <<>>
    /\ headBranch = BaseBranch
    /\ lastCall = [op |-> "none"]
    /\ stopped = [called |-> FALSE]
    /\ thrown = "none"
    /\ tracker = NewTracker
    /\ ghIssues = <<>>

InitSeq ==
    /\ SeqSession
    /\ argv = <<>>
    /\ startCalls = <<>>
    /\ repo = CleanRepo

\* the executor's variables and the environment's, which the one-task tools
\* leave alone
execVars ==
    <<yamlFile, loopVars, slots, results, gitVars, histVars, events, adds,
      reconVars>>

\* a lookup that takes the last remaining task: tasks[tasks.length - 1]
getNextTask_LastRemaining ==
    IF MdGetRemainingTasks(content) = <<>> THEN Null
    ELSE MdGetRemainingTasks(content)[Len(MdGetRemainingTasks(content))]

\* getNextTask(): tasks.length > 0 ? tasks[0] : null
getNextTask ==
    IF MdGetRemainingTasks(content) = <<>> THEN Null
    ELSE Head(MdGetRemainingTasks(content))

\* Where createTaskBranch() can fail: at git stash push, at git checkout of
\* the base branch, at git pull, or at both git checkout -b and git checkout
\* of the task branch; "none" when it returns the branch name.
FailPoints == {"none", "stash", "checkout", "pull", "branch"}

\* `ralphy/${slugify(task)}`
TaskBranchName(task) == <<"ralphy", slugify(task)>>

\* GitManager.createTaskBranch: its return value
createTaskBranch(task, failAt) ==
    IF failAt = "none" THEN TaskBranchName(task) ELSE NoBranch

\* GitManager.createTaskBranch: the branch checked out when it returns
HeadAfterCreateTaskBranch(task, failAt) ==
    CASE failAt = "none" -> TaskBranchName(task)
      [] failAt \in {"stash", "checkout"} -> headBranch
      [] failAt \in {"pull", "branch"} -> BaseBranch

\* processNextTask(): what it returns for a task: header + prompt, the
\* directive the agent works from
TaskDirective(task, branchName) ==
    [kind |-> "directive", task |-> task, branch |-> branchName]

\* processNextTask(specificTask), the ralphy_next tool
ProcessNextTask(specificTask, failAt) ==
    /\ pc = "seq"
    /\ iteration < MaxIterationCount
    /\ ~config.branchPerTask => failAt = "none"
    /\ LET task == IF specificTask # Null THEN specificTask ELSE getNextTask
           before == [iteration |-> iteration, currentTask |-> currentTask,
                      remaining |-> MdGetRemainingTasks(content),
                      completedBranches |-> completedBranches,
                      content |-> content]
       IN IF task = Null
          THEN /\ lastCall' = [op |-> "next", specificTask |-> specificTask,
                                task |-> Null, branchName |-> NoBranch,
                                result |-> [kind |-> "noTasks"],
                                before |-> before]
               /\ UNCHANGED <<ctlState, tracker>>
          ELSE LET branchName == IF config.branchPerTask
                                 THEN createTaskBranch(task, failAt)
                                 ELSE NoBranch
               IN /\ iteration' = iteration + 1
                  /\ currentTask' = task
                  /\ completedBranches' =
                        IF branchName # NoBranch
                        THEN Append(completedBranches, branchName)
                        ELSE completedBranches
                  /\ tracker' =
                        IF branchName # NoBranch
                        THEN TrackerAddBranch(tracker, branchName)
                        ELSE tracker
                  /\ headBranch' =
                        IF config.branchPerTask
                        THEN HeadAfterCreateTaskBranch(task, failAt)
                        ELSE headBranch
                  /\ lastCall' = [op |-> "next",
                                   specificTask |-> specificTask,
                                   task |-> task, branchName |-> branchName,
                                   result |-> TaskDirective(task, branchName),
                                   before |-> before]
                  /\ UNCHANGED running
    /\ UNCHANGED <<content, mdHist, config, pc, execVars, stopped, thrown>>
    /\ UNCHANGED <<ghIssues, argv, startCalls, repo>>

\* markComplete(task), the ralphy_mark_complete tool.  writeOk is FALSE when
\* Bun.write() throws inside taskSource.markComplete().
MarkCompleteTool(task, writeOk) ==
    /\ pc = "seq"
    /\ content' = IF writeOk THEN MdMarkCompleteText(content, task) ELSE content
    /\ thrown' = IF writeOk THEN thrown ELSE "markComplete"
    /\ lastCall' = [op |-> "markComplete", task |-> task,
                     remaining |-> MdCountRemaining(content')]
    /\ UNCHANGED <<mdHist, config, pc, execVars, ctlState, stopped>>
    /\ UNCHANGED <<tracker, ghIssues, argv, startCalls, repo>>

\* getStatus(), the ralphy_status tool: it reads the counts and changes
\* nothing
GetStatus ==
    /\ pc = "seq"
    /\ lastCall' = [op |-> "status",
                     completed |-> MdCountCompleted(content),
                     remaining |-> MdCountRemaining(content)]
    /\ UNCHANGED <<content, mdHist, config, pc, execVars, ctlState, stopped,
                   thrown>>
    /\ UNCHANGED <<tracker, ghIssues, argv, startCalls, repo>>

\* startLoop(options) without config.parallel: the running check, the file
\* checks, the reset, and the first-task check
StartLoopSequential(outcome) ==
    /\ pc = "seq"
    /\ ~config.parallel
    /\ IF running \/ outcome = "noPrd"
       THEN UNCHANGED <<ctlState, thrown>>
       ELSE IF outcome = "writeThrows"
       THEN thrown' = "start" /\ UNCHANGED ctlState
       ELSE /\ running' = (getNextTask # Null)
            /\ iteration' = 0
            /\ completedBranches' = <<>>
            /\ UNCHANGED <<currentTask, headBranch, thrown>>
    /\ tracker' = IF ~running /\ outcome = "ok"
                  THEN TrackerReset(tracker) ELSE tracker
    /\ lastCall' = [op |-> "start"]
    /\ UNCHANGED <<content, mdHist, config, pc, execVars, stopped>>
    /\ UNCHANGED <<ghIssues, argv, startCalls, repo>>

\* stopLoop(), the ralphy_stop tool, in the sequential session
StopLoopSequential(checkoutOk) ==
    /\ pc = "seq"
    /\ ~config.branchPerTask => checkoutOk
    /\ IF ~running
       THEN UNCHANGED <<running, currentTask, headBranch>>
       ELSE /\ running' = FALSE
            /\ currentTask' = Null
            /\ headBranch' = IF config.branchPerTask
                             THEN returnToBaseBranch(checkoutOk)
                             ELSE headBranch
    /\ lastCall' = [op |-> "stop"]
    /\ UNCHANGED <<content, mdHist, config, pc, execVars, iteration,
                   completedBranches, stopped, thrown>>
    /\ UNCHANGED <<tracker, ghIssues, argv, startCalls, repo>>

NextSeq ==
    \/ \E t \in SpecificTasks, failAt \in FailPoints : ProcessNextTask(t, failAt)
    \/ \E t \in SpecificTasks \ {Null}, writeOk \in BOOLEAN :
          MarkCompleteTool(t, writeOk)
    \/ GetStatus
    \/ \E outcome \in StartOutcomes : StartLoopSequential(outcome)
    \/ \E checkoutOk \in BOOLEAN : StopLoopSequential(checkoutOk)

SpecSeq == InitSeq /\ [][NextSeq]_vars

\* ------------------------------------- the session's ProgressTracker
\* The plugin's tools over one checklist, together with the tracker's add
\* methods applied to state.tracker.
MaxAmount == 1   \* the largest amount passed to one add method
MaxTotal == 1    \* the largest total a counter is taken to

Amounts == 0..MaxAmount

InitLedger ==
    /\ InitSeq
    /\ content = MdBacklog(2)

\* what the tracker's add methods leave alone
LedgerUnchanged ==
    UNCHANGED <<content, mdHist, config, pc, execVars, ctlState, stopped,
                thrown, ghIssues, argv, startCalls, repo>>

\* state.tracker.addTokens(input, output)
LedgerAddTokens(input, output) ==
    /\ pc = "seq"
    /\ tracker.inputTokens + input <= MaxTotal
    /\ tracker.outputTokens + output <= MaxTotal
    /\ tracker' = TrackerAddTokens(tracker, input, output)
    /\ lastCall' = [op |-> "addTokens", input |-> input, output |-> output]
    /\ LedgerUnchanged

\* state.tracker.addCost(cost)
LedgerAddCost(cost) ==
    /\ pc = "seq"
    /\ tracker.actualCost + cost <= MaxTotal
    /\ tracker' = TrackerAddCost(tracker, cost)
    /\ lastCall' = [op |-> "addCost", cost |-> cost]
    /\ LedgerUnchanged

\* state.tracker.addDuration(ms)
LedgerAddDuration(ms) ==
    /\ pc = "seq"
    /\ tracker.durationMs + ms <= MaxTotal
    /\ tracker' = TrackerAddDuration(tracker, ms)
    /\ lastCall' = [op |-> "addDuration", ms |-> ms]
    /\ LedgerUnchanged

\* configureOptions(options), the ralphy_config tool: Object.assign of the
\* parsed flags; --branch-per-task is the flag the session's tools read
ConfigureOptions(branchPerTaskFlag) ==
    /\ pc = "seq"
    /\ config' = [config EXCEPT !.branchPerTask = @ \/ branchPerTaskFlag]
    /\ lastCall' = [op |-> "configure"]
    /\ UNCHANGED <<content, mdHist, pc, execVars, ctlState, stopped, thrown,
                   tracker, ghIssues, argv, startCalls, repo>>

NextLedger ==
    \/ \E failAt \in {"none", "branch"} : ProcessNextTask(Null, failAt)
    \/ MarkCompleteTool(TaskTitle(1), TRUE)
    \/ GetStatus
    \/ StartLoopSequential("ok")
    \/ StopLoopSequential(TRUE)
    \/ \E flag \in BOOLEAN : ConfigureOptions(flag)
    \/ \E input, output \in Amounts : LedgerAddTokens(input, output)
    \/ \E cost \in Amounts : LedgerAddCost(cost)
    \/ \E ms \in Amounts : LedgerAddDuration(ms)

SpecLedger == InitLedger /\ [][NextLedger]_vars

\* ------------------------------------------------------ GithubTaskSource
\* An issue is [number, title, body, open].  What one gh command does:
\*   "ok"         it runs and prints its JSON answer
\*   "failed"     it exits with an error and prints nothing on stdout
\*   "garbage"    it prints text that JSON.parse() rejects
\*   "spawnFails" Bun.spawn() cannot start gh and throws
MaxIssues == 2   \* issues of the repository drawn in InitGh

GhOutcomes == {"ok", "failed", "garbage", "spawnFails"}

IssueChoices ==
    [number : {1, 12}, title : {<<"a">>, <<"b", ":", "c">>},
     body : {<<>>, <<"d">>}, open : BOOLEAN]

GhIssueLists ==
    {l \in SeqsUpTo(IssueChoices, MaxIssues) :
        \A j, k \in 1..Len(l) : j # k => l[j].number # l[k].number}

\* `${i.number}:${i.title}`
GhTaskText(issue) == NumberToString(issue.number) \o <<":">> \o issue.title

\* the text before the last ":" of the task text
GhIssueNum_UpToLastColon(task) ==
    LET ps == {p \in 1..Len(task) : task[p] = ":"}
    IN IF ps = {} THEN task
       ELSE SubSeq(task, 1, (CHOOSE p \in ps : \A q \in ps : q <= p) - 1)

\* task.split(":")[0]
GhIssueNum(task) ==
    IF IndexOf(task, ":") = 0 THEN task
    ELSE SubSeq(task, 1, IndexOf(task, ":") - 1)

\* runGhCommand(["issue", "list", "--state", state, ...]): the trimmed
\* stdout, or the error Bun.spawn() throws
GhIssueList(open, outcome) ==
    CASE outcome = "ok" ->
           [kind |-> "json",
            value |-> SelectSeq(ghIssues, LAMBDA x : x.open = open)]
      [] outcome = "failed" -> [kind |-> "empty"]
      [] outcome = "garbage" -> [kind |-> "text"]
      [] outcome = "spawnFails" -> [kind |-> "throws"]

\* runGhCommand(["issue", "view", issueNum, "--json", "body"])
GhIssueView(issueNum, outcome) ==
    LET hits == SelectSeq(ghIssues, LAMBDA x : NumberToString(x.number) = issueNum)
    IN CASE outcome = "ok" ->
              IF hits = <<>> THEN [kind |-> "empty"]
              ELSE [kind |-> "json", value |-> hits[1].body]
         [] outcome = "failed" -> [kind |-> "empty"]
         [] outcome = "garbage" -> [kind |-> "text"]
         [] outcome = "spawnFails" -> [kind |-> "throws"]

RECURSIVE GhTaskTexts(_)
GhTaskTexts(l) ==
    IF l = <<>> THEN <<>> ELSE <<GhTaskText(Head(l))>> \o GhTaskTexts(Tail(l))

\* if (!output) return []; try { JSON.parse(output) ... } catch { return [] }
GhParsedList(output) == IF output.kind = "json" THEN output.value ELSE <<>>

\* what a method hands back: a value, or the error that left it
GhReturn(op, outputs, value) ==
    [op |-> op,
     failed |-> \E k \in 1..Len(outputs) : outputs[k].kind # "json",
     raised |-> \E k \in 1..Len(outputs) : outputs[k].kind = "throws",
     result |-> value]

\* getRemainingTasks()
GhRemainingTasks(outcome) == GhTaskTexts(GhParsedList(GhIssueList(TRUE, outcome)))

InitGh ==
    /\ ghIssues \in GhIssueLists
    /\ argv = <<>>
    /\ startCalls = <<>>
    /\ repo = CleanRepo
    /\ content = <<>>
    /\ mdBefore = <<>>
    /\ mdOp = "none"
    /\ mdArg = <<>>
    /\ mdOps = 0
    /\ RunIdle("github")

\* the source's methods touch the issue tracker only
GhUnchanged ==
    UNCHANGED <<content, mdHist, config, yamlFile, pc, loopVars, slots,
                results, gitVars, histVars, events, adds, reconVars, ctlState,
                stopped, thrown, tracker, argv, startCalls, repo>>

\* GithubTaskSource.getRemainingTasks()
GhGetRemainingTasks(outcome) ==
    /\ lastCall' = GhReturn("getRemainingTasks", <<GhIssueList(TRUE, outcome)>>,
                            GhRemainingTasks(outcome))
    /\ UNCHANGED ghIssues
    /\ GhUnchanged

\* GithubTaskSource.getAllTasks(): the open issues, then the closed ones; the
\* second command is not run when the first one throws
GhGetAllTasks(openOutcome, closedOutcome) ==
    /\ openOutcome = "spawnFails" => closedOutcome = "spawnFails"
    /\ LET openOutput == GhIssueList(TRUE, openOutcome)
           closedOutput == GhIssueList(FALSE, closedOutcome)
           task(x) == [title |-> GhTaskText(x), completed |-> ~x.open]
           list(l) == [k \in 1..Len(l) |-> task(l[k])]
       IN lastCall' = GhReturn("getAllTasks", <<openOutput, closedOutput>>,
                               list(GhParsedList(openOutput))
                                   \o list(GhParsedList(closedOutput)))
    /\ UNCHANGED ghIssues
    /\ GhUnchanged

\* GithubTaskSource.countRemaining()
GhCountRemaining(outcome) ==
    /\ lastCall' = GhReturn("countRemaining", <<GhIssueList(TRUE, outcome)>>,
                            Len(GhRemainingTasks(outcome)))
    /\ UNCHANGED ghIssues
    /\ GhUnchanged

\* GithubTaskSource.countCompleted()
GhCountCompleted(outcome) ==
    /\ lastCall' = GhReturn("countCompleted", <<GhIssueList(FALSE, outcome)>>,
                            Len(GhParsedList(GhIssueList(FALSE, outcome))))
    /\ UNCHANGED ghIssues
    /\ GhUnchanged

\* GithubTaskSource.getTaskBody(task)
GhGetTaskBody(task, outcome) ==
    /\ LET issueNum == GhIssueNum(task)
           output == GhIssueView(issueNum, outcome)
       IN lastCall' =
             IF issueNum = <<>>
             THEN [op |-> "getTaskBody", failed |-> FALSE, raised |-> FALSE,
                   result |-> <<>>]
             ELSE GhReturn("getTaskBody", <<output>>,
                           IF output.kind = "json" THEN output.value ELSE <<>>)
    /\ UNCHANGED ghIssues
    /\ GhUnchanged

\* GithubTaskSource.markComplete(task): gh issue close issueNum
GhMarkComplete(task, outcome) ==
    /\ LET issueNum == GhIssueNum(task)
       IN /\ ghIssues' =
                IF issueNum # <<>> /\ outcome = "ok"
                THEN [k \in 1..Len(ghIssues) |->
                         IF NumberToString(ghIssues[k].number) = issueNum
                         THEN [ghIssues[k] EXCEPT !.open = FALSE]
                         ELSE ghIssues[k]]
                ELSE ghIssues
          /\ lastCall' = [op |-> "markComplete", task |-> task,
                           issueNum |-> issueNum,
                           raised |-> issueNum # <<>> /\ outcome = "spawnFails"]
    /\ GhUnchanged

\* the task texts a caller passes: the ones the source listed, an empty
\* text, and a text naming no issue
GhTaskArgs ==
    {GhTaskText(ghIssues[k]) : k \in 1..Len(ghIssues)}
        \cup {<<>>, <<"9", ":", "a">>}

NextGh ==
    \/ \E outcome \in GhOutcomes : GhGetRemainingTasks(outcome)
    \/ \E o1, o2 \in GhOutcomes : GhGetAllTasks(o1, o2)
    \/ \E outcome \in GhOutcomes : GhCountRemaining(outcome)
    \/ \E outcome \in GhOutcomes : GhCountCompleted(outcome)
    \/ \E t \in GhTaskArgs, outcome \in GhOutcomes : GhGetTaskBody(t, outcome)
    \/ \E t \in GhTaskArgs, outcome \in GhOutcomes : GhMarkComplete(t, outcome)

SpecGh == InitGh /\ [][NextGh]_vars

\* ------------------------------------------------------------- parseArgs
\* An option token is a sequence: a flag is the one-element sequence of its
\* word, any other token is the sequence of its characters.  A field of the
\* Partial<RalphyConfig> that parseArgs returns is Undefined or <<value>>.

MaxArgs == 3   \* tokens of an options text drawn in InitArgs

\* the flags whose case reads parts[++i]
ValueFlags ==
    { <<"--max-iterations">>, <<"--max-retries">>, <<"--retry-delay">>,
      <<"--max-parallel">>, <<"--base-branch">>, <<"--prd">>, <<"--yaml">>,
      <<"--github">>, <<"--github-label">> }

\* the flags whose case reads no further token
SwitchFlags ==
    { <<"--no-tests">>, <<"--skip-tests">>, <<"--no-lint">>, <<"--skip-lint">>,
      <<"--fast">>, <<"--dry-run">>, <<"--parallel">>, <<"--branch-per-task">>,
      <<"--create-pr">>, <<"--draft-pr">>, <<"-v">>, <<"--verbose">> }

ConfigKeys ==
    { "skipTests", "skipLint", "maxIterations", "maxRetries", "retryDelay",
      "dryRun", "parallel", "maxParallel", "branchPerTask", "baseBranch",
      "createPr", "draftPr", "prdSource", "prdFile", "githubRepo",
      "githubLabel", "verbose" }

\* const config: Partial<RalphyConfig> = {}
EmptyPartial == [key \in ConfigKeys |-> Undefined]

\* parseInt(value) || fallback
ParseIntOr(value, fallback) ==
    IF ParseIntOrZero(value) = 0 THEN fallback ELSE ParseIntOrZero(value)

\* value || fallback, for a token or undefined (the empty sequence)
TokenOr(value, fallback) == IF value = <<>> THEN fallback ELSE value

\* an unrecognized token is taken for a value-taking flag
ArgWidth_UnknownTakesValue(arg) ==
    IF arg \in ValueFlags \/ arg \notin SwitchFlags THEN 2 ELSE 1

\* by how much one pass of the for loop moves i: the i++ of the loop and
\* the ++i of a case that reads parts[++i]
ArgWidth(arg) == IF arg \in ValueFlags THEN 2 ELSE 1

\* switch (arg): the assignments of the case of arg, where value is
\* parts[++i] (the empty sequence for undefined)
ArgEffect(arg, value, cfg) ==
    CASE arg \in {<<"--no-tests">>, <<"--skip-tests">>} ->
           [cfg EXCEPT !.skipTests = <<TRUE>>]
      [] arg \in {<<"--no-lint">>, <<"--skip-lint">>} ->
           [cfg EXCEPT !.skipLint = <<TRUE>>]
      [] arg = <<"--fast">> ->
           [cfg EXCEPT !.skipTests = <<TRUE>>, !.skipLint = <<TRUE>>]
      [] arg = <<"--dry-run">> -> [cfg EXCEPT !.dryRun = <<TRUE>>]
      [] arg = <<"--max-iterations">> ->
           [cfg EXCEPT !.maxIterations = <<ParseIntOr(value, 0)>>]
      [] arg = <<"--max-retries">> ->
           [cfg EXCEPT !.maxRetries = <<ParseIntOr(value, 3)>>]
      [] arg = <<"--retry-delay">> ->
           [cfg EXCEPT !.retryDelay = <<ParseIntOr(value, 5)>>]
      [] arg = <<"--parallel">> -> [cfg EXCEPT !.parallel = <<TRUE>>]
      [] arg = <<"--max-parallel">> ->
           [cfg EXCEPT !.maxParallel = <<ParseIntOr(value, 3)>>]
      [] arg = <<"--branch-per-task">> ->
           [cfg EXCEPT !.branchPerTask = <<TRUE>>]
      [] arg = <<"--base-branch">> ->
           [cfg EXCEPT !.baseBranch = <<TokenOr(value, <<>>)>>]
      [] arg = <<"--create-pr">> -> [cfg EXCEPT !.createPr = <<TRUE>>]
      [] arg = <<"--draft-pr">> -> [cfg EXCEPT !.draftPr = <<TRUE>>]
      [] arg = <<"--prd">> ->
           [cfg EXCEPT !.prdSource = <<"markdown">>,
                       !.prdFile = <<TokenOr(value, <<"PRD.md">>)>>]
      [] arg = <<"--yaml">> ->
           [cfg EXCEPT !.prdSource = <<"yaml">>,
                       !.prdFile = <<TokenOr(value, <<"tasks.yaml">>)>>]
      [] arg = <<"--github">> ->
           [cfg EXCEPT !.prdSource = <<"github">>,
                       !.githubRepo = <<TokenOr(value, <<>>)>>]
      [] arg = <<"--github-label">> ->
           [cfg EXCEPT !.githubLabel = <<TokenOr(value, <<>>)>>]
      [] arg \in {<<"-v">>, <<"--verbose">>} ->
           [cfg EXCEPT !.verbose = <<TRUE>>]
      [] OTHER -> cfg

\* for (let i = 0; i < parts.length; i++) { switch (parts[i]) ... }, from
\* the 1-based position p
RECURSIVE ParseArgsFrom(_, _, _)
ParseArgsFrom(parts, p, cfg) ==
    IF p > Len(parts) THEN cfg
    ELSE LET value == IF p + 1 <= Len(parts) THEN parts[p + 1] ELSE <<>>
         IN ParseArgsFrom(parts, p + ArgWidth(parts[p]),
                          ArgEffect(parts[p], value, cfg))

\* parseArgs(args), for args.split(/\s+/).filter(Boolean) = parts
parseArgs(parts) == ParseArgsFrom(parts, 1, EmptyPartial)

\* the tokens of the options texts drawn: flags with and without a value,
\* numerals (positive, zero, negative), words that are no flag
ArgTokens ==
    { <<"--fast">>, <<"--parallel">>, <<"--skip-tests">>,
      <<"--max-parallel">>, <<"--max-iterations">>, <<"--base-branch">>,
      <<"--yaml">>,
      <<"2">>, <<"0">>, <<"-", "1">>, <<"x">>, <<"--nope">> }

ArgLists == SeqsUpTo(ArgTokens, MaxArgs)

InitArgs ==
    /\ argv \in ArgLists
    /\ startCalls = <<>>
    /\ repo = CleanRepo
    /\ content = <<>>
    /\ mdBefore = <<>>
    /\ mdOp = "none"
    /\ mdArg = <<>>
    /\ mdOps = 0
    /\ RunIdle("markdown")
    /\ ghIssues = <<>>

\* parseArgs(options)
ParseArgs ==
    /\ lastCall.op = "none"
    /\ lastCall' = [op |-> "parseArgs", config |-> parseArgs(argv)]
    /\ UNCHANGED <<content, mdHist, config, yamlFile, pc, loopVars, slots,
                   results, gitVars, histVars, events, adds, reconVars,
                   ctlState, stopped, thrown, tracker, ghIssues, argv, startCalls, repo>>

NextArgs == ParseArgs

SpecArgs == InitArgs /\ [][NextArgs]_vars

\* ------------------------------------------- startLoop(), await by await
\* Two ralphy_start invocations of one plugin instance in a sequential
\* session.  An invocation runs from one await to the next without
\* interruption; at an await the other invocation, or ralphy_stop, may run.

MaxStarts == 2   \* startLoop() invocations followed

NotStarted == [st |-> "none", passed |-> FALSE, initialized |-> FALSE]

\* the options texts of the invocations, as parts
StartOptions ==
    { <<>>, <<<<"--branch-per-task">>>>, <<<<"--max-iterations">>, <<"2">>>> }

\* Object.assign(state.config, partial), for the fields of config
AssignConfig(cfg, partial) ==
    [key \in DOMAIN cfg |->
        IF partial[key] = Undefined THEN cfg[key] ELSE partial[key][1]]

InitStart ==
    /\ SeqSession
    /\ ~config.branchPerTask
    /\ argv = <<>>
    /\ startCalls = [n \in 1..MaxStarts |-> NotStarted]
    /\ repo = CleanRepo

\* what the steps of startLoop() leave alone
StartUnchanged ==
    UNCHANGED <<content, mdHist, pc, execVars, currentTask, headBranch,
                stopped, ghIssues, argv, repo>>

\* startLoop(options), up to the first await: the running check, the
\* options, fileExists(prdPath)
StartEnter(n, options) ==
    /\ startCalls[n].st = "none"
    /\ IF running
       THEN /\ startCalls' = [startCalls EXCEPT ![n].st = "returned"]
            /\ UNCHANGED config
       ELSE /\ startCalls' = [startCalls EXCEPT ![n].st = "awaitPrd",
                                                ![n].passed = TRUE]
            /\ config' = IF options = <<>> THEN config
                         ELSE AssignConfig(config, parseArgs(options))
    /\ lastCall' = [op |-> "start"]
    /\ UNCHANGED <<running, iteration, completedBranches, tracker, thrown>>
    /\ StartUnchanged

\* state.running = true ... initTaskSource(), up to await log(...)
StartInitialize(n) ==
    /\ running' = TRUE
    /\ iteration' = 0
    /\ completedBranches' = <<>>
    /\ tracker' = TrackerReset(tracker)
    /\ startCalls' = [startCalls EXCEPT ![n].st = "awaitLog",
                                        ![n].initialized = TRUE]
    /\ UNCHANGED thrown

\* fileExists(prdPath) has answered; fileExists(progressPath) is awaited
StartPrdChecked(n, exists) ==
    /\ startCalls[n].st = "awaitPrd"
    /\ startCalls' = [startCalls EXCEPT
                         ![n].st = IF exists THEN "awaitProgress"
                                   ELSE "returned"]
    /\ UNCHANGED <<config, running, iteration, completedBranches, tracker,
                   thrown, lastCall>>
    /\ StartUnchanged

\* fileExists(progressPath) has answered: Bun.write is awaited when the
\* file is missing, and the run is initialized otherwise
StartProgressChecked(n, exists) ==
    /\ startCalls[n].st = "awaitProgress"
    /\ IF exists THEN StartInitialize(n)
       ELSE /\ startCalls' = [startCalls EXCEPT ![n].st = "awaitWrite"]
            /\ UNCHANGED <<running, iteration, completedBranches, tracker,
                           thrown>>
    /\ UNCHANGED <<config, lastCall>>
    /\ StartUnchanged

\* Bun.write(progressPath, "") has answered: the run is initialized, or the
\* error leaves startLoop()
StartProgressWritten(n, writeOk) ==
    /\ startCalls[n].st = "awaitWrite"
    /\ IF writeOk THEN StartInitialize(n)
       ELSE /\ startCalls' = [startCalls EXCEPT ![n].st = "threw"]
            /\ thrown' = "start"
            /\ UNCHANGED <<running, iteration, completedBranches, tracker>>
    /\ UNCHANGED <<config, lastCall>>
    /\ StartUnchanged

\* getCurrentBranch() and log() have answered: getNextTask() is awaited
StartLogged(n) ==
    /\ startCalls[n].st = "awaitLog"
    /\ startCalls' = [startCalls EXCEPT ![n].st = "awaitTasks"]
    /\ UNCHANGED <<config, running, iteration, completedBranches, tracker,
                   thrown, lastCall>>
    /\ StartUnchanged

\* getNextTask() has answered: state.running = false when there is no
\* task, and startLoop() returns
StartTasksRead(n) ==
    /\ startCalls[n].st = "awaitTasks"
    /\ running' = IF getNextTask = Null THEN FALSE ELSE running
    /\ startCalls' = [startCalls EXCEPT ![n].st = "returned"]
    /\ UNCHANGED <<config, iteration, completedBranches, tracker, thrown,
                   lastCall>>
    /\ StartUnchanged

\* ralphy_stop
StartStop(checkoutOk) ==
    /\ StopLoopSequential(checkoutOk)
    /\ UNCHANGED startCalls

NextStart ==
    \/ \E n \in 1..MaxStarts, options \in StartOptions : StartEnter(n, options)
    \/ \E n \in 1..MaxStarts, exists \in BOOLEAN : StartPrdChecked(n, exists)
    \/ \E n \in 1..MaxStarts, exists \in BOOLEAN :
          StartProgressChecked(n, exists)
    \/ \E n \in 1..MaxStarts, writeOk \in BOOLEAN :
          StartProgressWritten(n, writeOk)
    \/ \E n \in 1..MaxStarts : StartLogged(n)
    \/ \E n \in 1..MaxStarts : StartTasksRead(n)
    \/ \E checkoutOk \in BOOLEAN : StartStop(checkoutOk)

SpecStart == InitStart /\ [][NextStart]_vars

\* --------------------------------------- createTaskBranch() and the stash
\* The working copy holds a set of local changes; a stash entry is the set
\* of changes it took.

\* the local changes and the stash entries of the project at the start
RepoChoices ==
    [changes : {{}, {"w"}},
     stash : {<<>>, <<{"s"}>>, <<{"s"}, {"r"}>>}]

\* git stash push -m "ralphy-autostash": with local changes, an entry is
\* pushed and the working copy is clean; without, nothing is pushed and the
\* command succeeds
StashPush(r) ==
    IF r.changes = {} THEN r
    ELSE [changes |-> {}, stash |-> <<r.changes>> \o r.stash]

\* try { git stash pop } catch {}: the top entry goes back to the working
\* copy; with an empty stash, or when the entry does not apply (popOk is
\* FALSE), the command fails and nothing changes
StashPop(r, popOk) ==
    IF r.stash = <<>> \/ ~popOk THEN r
    ELSE [changes |-> r.changes \cup Head(r.stash), stash |-> Tail(r.stash)]

\* GitManager.createTaskBranch: the working copy and the stash when it
\* returns
RepoAfterCreateTaskBranch(r, failAt, popOk) ==
    CASE failAt = "stash" -> r
      [] failAt \in {"checkout", "pull", "branch"} -> StashPush(r)
      [] failAt = "none" -> StashPop(StashPush(r), popOk)

InitStash ==
    /\ SeqSession
    /\ content = MdBacklog(2)
    /\ config.branchPerTask
    /\ argv = <<>>
    /\ startCalls = <<>>
    /\ repo \in RepoChoices

\* gitManager.createTaskBranch(task, baseBranch)
CreateTaskBranch(task, failAt, popOk) ==
    /\ pc = "seq"
    /\ (failAt # "none" \/ StashPush(repo).stash = <<>>) => popOk
    /\ repo' = RepoAfterCreateTaskBranch(repo, failAt, popOk)
    /\ headBranch' = HeadAfterCreateTaskBranch(task, failAt)
    /\ lastCall' = [op |-> "createTaskBranch", task |-> task,
                    result |-> createTaskBranch(task, failAt),
                    before |-> repo]
    /\ UNCHANGED <<content, mdHist, config, pc, execVars, running, iteration,
                   currentTask, completedBranches, stopped, thrown, tracker,
                   ghIssues, argv, startCalls>>

NextStash ==
    \E task \in {TaskTitle(1), TaskTitle(2)}, failAt \in FailPoints,
       popOk \in BOOLEAN : CreateTaskBranch(task, failAt, popOk)

SpecStash == InitStash /\ [][NextStash]_vars

\* ------------------------------------ a parallel run started with options
\* startLoop(options) in parallel mode, with the configuration the options
\* give, followed to the end of executor.run() under the assumption that
\* whatever can happen next does happen (no call hangs).

MaxRunTasks == 2   \* tasks of the backlog in InitRun

\* defaultConfig, for the fields of config
DefaultConfig ==
    [prdSource |-> "markdown", maxParallel |-> 3, maxIterations |-> 0,
     createPr |-> FALSE, parallel |-> FALSE, branchPerTask |-> FALSE]

\* the values given to --max-parallel
MaxParallelValues == {<<"2">>, <<"1">>, <<"0">>, <<"-", "1">>, <<"x">>}

\* the options texts of the runs: --parallel, then --max-parallel with a
\* value or not at all, --create-pr or not, --yaml or not
RunArgLists ==
    {<<<<"--parallel">>>> \o mp \o pr \o src :
        mp \in {<<>>} \cup {<<<<"--max-parallel">>, v>> : v \in MaxParallelValues},
        pr \in {<<>>, <<<<"--create-pr">>>>},
        src \in {<<>>, <<<<"--yaml">>>>}}

InitRun ==
    /\ argv \in RunArgLists
    /\ config = AssignConfig(DefaultConfig, parseArgs(argv))
    /\ Backlog(MaxRunTasks)
    /\ ExecutorIdle

SpecRun == InitRun /\ [][Next]_vars /\ WF_vars(Next)

\* ------------------------------------------------- the session.idle event
\* The sequential session with the host's session.idle events.  The host
\* delivers an idle event whenever the session has nothing to do, so an
\* event that would change something is eventually delivered.

MaxIdleTasks == 2   \* task lines of the checklist in InitIdle

\* a completion check that is always true
checkCompletion_Always == TRUE

\* checkCompletion(): remaining === 0
checkCompletion == MdCountRemaining(content) = 0

InitIdle ==
    /\ InitSeq
    /\ Len(SplitLines(content)) <= MaxIdleTasks

\* event({ event }) with event.type === "session.idle": stopLoop() when the
\* session is running and checkCompletion() is true
SessionIdle(checkoutOk) ==
    /\ pc = "seq"
    /\ ~(running /\ checkCompletion /\ config.branchPerTask) => checkoutOk
    /\ IF running /\ checkCompletion
       THEN /\ running' = FALSE
            /\ currentTask' = Null
            /\ headBranch' = IF config.branchPerTask
                             THEN returnToBaseBranch(checkoutOk)
                             ELSE headBranch
       ELSE UNCHANGED <<running, currentTask, headBranch>>
    /\ lastCall' = [op |-> "session.idle",
                    stopLoop |-> running /\ checkCompletion]
    /\ UNCHANGED <<content, mdHist, config, pc, execVars, iteration,
                   completedBranches, stopped, thrown, tracker, ghIssues,
                   argv, startCalls, repo>>

NextIdle ==
    \/ NextSeq
    \/ \E checkoutOk \in BOOLEAN : SessionIdle(checkoutOk)

SpecIdle ==
    /\ InitIdle
    /\ [][NextIdle]_vars
    /\ WF_vars(\E checkoutOk \in BOOLEAN : SessionIdle(checkoutOk))

\* ------------------------------------------------------------- properties
SeqContains(s, x) == \E k \in 1..Len(s) : s[k] = x

OccurrencesOf(s, x) == Cardinality({k \in 1..Len(s) : s[k] = x})

\* C1: after markComplete(t), getRemainingTasks() does not contain t
C1_MarkedTaskNotRemaining ==
    mdOp = "markComplete" => ~SeqContains(MdGetRemainingTasks(content), mdArg)

\* the titles of all task lines (pending and done) of a document
MdAllTitles(c) ==
    MapStrip(SelectSeq(SplitLines(c), LAMBDA l : IsTodoTaskLine(l) \/ IsDoneTaskLine(l)))

\* t is the title of exactly one task line of c, and that line is pending
MdPresentAndUnique(c, t) ==
    /\ OccurrencesOf(MdGetRemainingTasks(c), t) = 1
    /\ OccurrencesOf(MdAllTitles(c), t) = 1

\* C2: when t was a pending task and unique in the document, markComplete(t)
\* increases countCompleted() by exactly 1 and decreases countRemaining() by
\* exactly 1
C2_UniqueMarkMovesOneTask ==
    (mdOp = "markComplete" /\ MdPresentAndUnique(mdBefore, mdArg)) =>
        /\ MdCountCompleted(content) = MdCountCompleted(mdBefore) + 1
        /\ MdCountRemaining(content) = MdCountRemaining(mdBefore) - 1

\* --------------------------------------------------- scheduler properties
BatchSize(b) ==
    Cardinality({k \in 1..Len(dispatched) : dispatched[k].batch = b})

CeilDiv(m, n) == (m + n - 1) \div n

AgentNumbersUsed == {dispatched[k].agentNum : k \in 1..Len(dispatched)}

RunBatchesOver == pc \in {"baseCleanup", "reconcile", "returned"}

\* C3: within one run no slot number is assigned to two dispatched slots,
\* grouped or ungrouped
C3_SlotNumbersNeverReused ==
    \A a, b \in 1..Len(dispatched) :
        a # b => dispatched[a].agentNum # dispatched[b].agentNum

\* C4: ungrouped source, no iteration cap, maxParallel = N >= 1 and M
\* incomplete tasks: exactly ceil(M/N) batches, each of size <= N and all but
\* the last of size N, and the slot numbers are pairwise distinct and are
\* exactly 1..M
C4_UngroupedBatching ==
    (~IsYaml /\ config.maxIterations = 0 /\ RunBatchesOver) =>
        LET M == Len(startGroups)
            N == config.maxParallel
        IN /\ BatchCount = CeilDiv(M, N)
           /\ \A b \in 1..BatchCount :
                 /\ BatchSize(b) <= N
                 /\ b < BatchCount => BatchSize(b) = N
           /\ Len(dispatched) = M
           /\ AgentNumbersUsed = 1..M

\* N = 2 and M = 3 ran to the end as batches [2, 1]
C4_Witness ==
    /\ ~IsYaml /\ config.maxIterations = 0 /\ pc = "returned"
    /\ config.maxParallel = 2 /\ Len(startGroups) = 3
    /\ BatchCount = 2 /\ BatchSize(1) = 2 /\ BatchSize(2) = 1

\* C5: grouped source: groups are dispatched in ascending order, and when a
\* slot of a group is dispatched every task that was incomplete in an earlier
\* group has been dispatched in an earlier batch (which has resolved); also
\* with an iteration cap
C5_GroupBarrier ==
    IsYaml =>
        /\ \A a, b \in 1..Len(dispatched) :
              a < b => dispatched[a].group <= dispatched[b].group
        /\ \A k \in 1..Len(dispatched), j \in 1..Len(startGroups) :
              startGroups[j].group < dispatched[k].group =>
                  \E a \in 1..Len(dispatched) :
                      /\ dispatched[a].task = startGroups[j].title
                      /\ dispatched[a].batch < dispatched[k].batch

\* C6: with max-iterations = K > 0, no batch is dispatched once K slots have
\* resolved in the run
C6_CapStopsDispatch ==
    config.maxIterations > 0 =>
        \A k \in 1..Len(dispatched) :
            dispatched[k].resolvedBefore < config.maxIterations

\* C7: every task the run dispatches is in the snapshot run() took when it
\* began, for both kinds of source
C7_OnlySnapshotTasksDispatched ==
    \A k \in 1..Len(dispatched) : SeqContains(allTasks, dispatched[k].task)

\* C8: once a batch has resolved, every task whose slot succeeded is marked
\* complete in the backlog store, whatever the interleaving of the slots
C8_NoCompletionMarkLost ==
    pc # "flight" =>
        \A k \in 1..Len(results) :
            results[k].success => ~SeqContains(SourceRemaining, results[k].task)

\* C9: cleanupWorktree does not remove a workspace whose status query
\* reports non-empty output, and removes one only when the query succeeds
\* and reports empty output
C9_CleanupNeverRemovesDirty ==
    lastCleanup.called =>
        /\ (lastCleanup.status.ok /\ lastCleanup.status.text # <<>>) =>
              ~lastCleanup.removed
        /\ lastCleanup.removed =>
              (lastCleanup.status.ok /\ lastCleanup.status.text = <<>>)

\* one workspace of the batch was left because it was dirty and the last
\* cleanup removed a clean one
C9_Witness ==
    /\ lastCleanup.called /\ lastCleanup.removed
    /\ preserved # {} /\ preserved \subseteq worktrees

\* C10: every workspace that was dirty at cleanup time still exists when
\* run() returns
C10_DirtyWorktreesSurviveRun ==
    pc = "returned" => preserved \subseteq worktrees

\* ------------------------------------------------- reconciliation properties
\* the mergeBranch() calls whose checkout or merge command failed
FailedMergeCalls ==
    {k \in 1..Len(mergeCalls) : mergeCalls[k].outcome \in {"error", "conflict"}}

AbortedBranches == [k \in 1..Len(aborts) |-> aborts[k].branch]

MergeCallBranches == [k \in 1..Len(mergeCalls) |-> mergeCalls[k].branch]

\* C11: when the merge of branch X fails, X is in the unresolved report,
\* exactly one resolution attempt and exactly one merge abort are made for X,
\* X is not merged into the base and no second merge of X is attempted
C11_FailedMergeResolvedOnceThenAborted ==
    pc = "returned" =>
        \A k \in FailedMergeCalls :
            LET X == mergeCalls[k].branch
            IN /\ SeqContains(failedMerges, X)
               /\ OccurrencesOf(resolveAttempts, X) = 1
               /\ OccurrencesOf(AbortedBranches, X) = 1
               /\ X \notin merged
               /\ OccurrencesOf(MergeCallBranches, X) = 1

\* the branches of the slots that succeeded, in dispatch order
RECURSIVE BranchesInDispatchOrder(_)
BranchesInDispatchOrder(n) ==
    IF n = 0 THEN <<>>
    ELSE BranchesInDispatchOrder(n - 1) \o
            (IF n <= Len(results) /\ results[n].success
             THEN <<WorktreeBranch(dispatched[n].task, dispatched[n].agentNum)>>
             ELSE <<>>)

\* C12: merges are attempted only after every batch of the run has resolved;
\* without pull-request mode every successful slot's branch gets exactly one
\* merge attempt, in dispatch order; with pull-request mode no merge is
\* attempted
C12_MergesAfterBatchesInDispatchOrder ==
    /\ mergeCalls # <<>> =>
          (pc \in {"merging", "resolving", "returned", "done"} /\ slots = <<>>
           /\ Len(results) = Len(dispatched))
    /\ config.createPr => mergeCalls = <<>>
    /\ (pc = "returned" /\ ~config.createPr) =>
          MergeCallBranches = BranchesInDispatchOrder(Len(dispatched))

\* a run without pull-request mode in which one slot failed and the branches
\* of the two other slots were merged in turn
C12_Witness ==
    /\ pc = "returned" /\ ~config.createPr
    /\ Len(mergeCalls) = 2
    /\ \E k \in 1..Len(results) : ~results[k].success

\* --------------------------------------------------- concurrency properties
\* the slots that have started and have not resolved
Outstanding == {k \in 1..Len(slots) : slots[k].st # "resolved"}

C14_CreateWorktreeSerialized ==
    Cardinality(InCreateWorktree) <= 1

\* ----------------------------------------------------- plugin properties
\* C15: no error propagates out of an orchestration entry point, and when a
\* parallel start has finished the running flag is false
C15_NothingThrows ==
    /\ thrown = "none"
    /\ pc \in {"done", "thrown"} => ~running

\* C16: once stopLoop() has run during a parallel run, no batch is dispatched
\* other than those dispatched before the stop (the batch in flight at the
\* stop is the last one)
C16_StopHonoredAtBatchBoundary ==
    stopped.called => BatchCount <= stopped.batch

\* C17: with branch-per-task on, when createTaskBranch returns the empty
\* string processNextTask skips the task: it returns no task directive and
\* records no branch
C17_EmptyBranchSkipsTask ==
    (lastCall.op = "next" /\ config.branchPerTask /\ lastCall.task # Null
     /\ lastCall.branchName = NoBranch) =>
        /\ lastCall.result.kind # "directive"
        /\ completedBranches = lastCall.before.completedBranches

\* C18: one invocation of processNextTask processes exactly one task: when
\* a remaining task exists it takes the supplied task or else the first
\* remaining one, adds exactly 1 to the iteration count, makes it the
\* current task and marks nothing complete; when no task remains the
\* iteration count and the current task are unchanged
C18_OneTaskPerInvocation ==
    lastCall.op = "next" =>
        IF lastCall.before.remaining # <<>>
        THEN /\ lastCall.task = (IF lastCall.specificTask # Null
                                 THEN lastCall.specificTask
                                 ELSE Head(lastCall.before.remaining))
             /\ iteration = lastCall.before.iteration + 1
             /\ currentTask = lastCall.task
             /\ content = lastCall.before.content
        ELSE /\ iteration = lastCall.before.iteration
             /\ currentTask = lastCall.before.currentTask

\* C18 as the code has it: a supplied task is processed whether or not a
\* task remains; without a supplied task the first remaining task is
\* processed; the iteration count goes up by exactly 1, the task becomes the
\* current task and nothing is marked complete; with no supplied task and no
\* remaining task the iteration count and the current task are unchanged
C18_OneTaskPerInvocationOrSupplied ==
    lastCall.op = "next" =>
        IF lastCall.before.remaining # <<>> \/ lastCall.specificTask # Null
        THEN /\ lastCall.task = (IF lastCall.specificTask # Null
                                 THEN lastCall.specificTask
                                 ELSE Head(lastCall.before.remaining))
             /\ lastCall.result.kind = "directive"
             /\ iteration = lastCall.before.iteration + 1
             /\ currentTask = lastCall.task
             /\ content = lastCall.before.content
        ELSE /\ lastCall.result.kind = "noTasks"
             /\ iteration = lastCall.before.iteration
             /\ currentTask = lastCall.before.currentTask

\* the second invocation in a row took the first of two remaining tasks
C18_Witness ==
    /\ lastCall.op = "next" /\ lastCall.specificTask = Null
    /\ Len(lastCall.before.remaining) >= 2
    /\ lastCall.task = Head(lastCall.before.remaining)
    /\ iteration = 2

C20_ParallelGroupsSortedAndIncomplete ==
    LET data == YamlParseFile(content)
        gs == YamlGetParallelGroups(data)
    IN /\ \A k \in 1..(Len(gs) - 1) : gs[k] < gs[k + 1]
       /\ {gs[k] : k \in 1..Len(gs)} =
              {IF data[k].parallel_group = Undefined THEN 0
               ELSE data[k].parallel_group[1] :
                  k \in {j \in 1..Len(data) : ~data[j].completed}}

\* the file listed group 10 before group 0 and the groups came out as 0, 10;
\* marking the only task of group 0 complete left group 10 alone
C20_Witness ==
    LET before == YamlParseFile(mdBefore)
    IN /\ mdOp = "markComplete"
       /\ Len(before) = 2
       /\ before[1].parallel_group = <<10>> /\ before[2].parallel_group = Undefined
       /\ YamlGetParallelGroups(before) = <<0, 10>>
       /\ YamlGetParallelGroups(YamlParseFile(content)) = <<10>>
       /\ Len(YamlParseFile(content)) = 2

GhQueries ==
    {"getRemainingTasks", "getAllTasks", "countRemaining", "countCompleted",
     "getTaskBody"}

\* C21: when the tracker command of a query fails (it cannot be run, it
\* prints nothing, or it prints what cannot be parsed), the query raises no
\* error and what the failed command would have listed is empty: an empty
\* list, 0, or an empty text
C21_TrackerFailureGivesEmptyResult ==
    (lastCall.op \in GhQueries /\ lastCall.failed) =>
        /\ ~lastCall.raised
        /\ lastCall.op \in {"getRemainingTasks", "getTaskBody"} =>
               lastCall.result = <<>>
        /\ lastCall.op \in {"countRemaining", "countCompleted"} =>
               lastCall.result = 0
        /\ lastCall.op = "getAllTasks" =>
               \A k \in 1..Len(lastCall.result) :
                   \E j \in 1..Len(ghIssues) :
                       lastCall.result[k].title = GhTaskText(ghIssues[j])

IsPrefixOf(a, b) == Len(a) <= Len(b) /\ SubSeq(b, 1, Len(a)) = a

LedgerGrows(old, new) ==
    /\ old.inputTokens <= new.inputTokens
    /\ old.outputTokens <= new.outputTokens
    /\ old.actualCost <= new.actualCost
    /\ old.durationMs <= new.durationMs
    /\ IsPrefixOf(old.completedBranches, new.completedBranches)

\* C22: every step that is not a session start (an add method of the
\* tracker, stop, status, next, mark-complete, configure) leaves every
\* counter of the session's tracker at least as large as it was and keeps
\* every recorded branch
C22_LedgerGrowsBetweenResets ==
    [][lastCall'.op # "start" => LedgerGrows(tracker, tracker')]_vars

\* the session was stopped with tokens, cost, duration and a branch on the
\* tracker, and they are still there
C22_Witness ==
    /\ lastCall.op = "stop"
    /\ tracker.inputTokens > 0 /\ tracker.actualCost > 0
    /\ tracker.durationMs > 0
    /\ tracker.completedBranches # <<>>

DispatchedTasks == [k \in 1..Len(dispatched) |-> dispatched[k].task]

\* the results of the slots whose runAgent() returned success = false
FailedResults == {k \in 1..Len(results) : ~results[k].success}

\* C23: every task of the snapshot is dispatched at most once in the run, and
\* a slot that returned a failed result leaves its task pending in the
\* backlog and has no branch in the result; every branch handed to
\* mergeBranch(), and every branch merged, is the branch of a successful
\* result
C23_NoSlotRetries ==
    /\ \A k \in 1..Len(allTasks) :
           OccurrencesOf(DispatchedTasks, allTasks[k]) <= 1
    /\ \A k \in FailedResults :
           /\ SeqContains(SourceRemaining, results[k].task)
           /\ results[k].branch = NoBranch
    /\ \A c \in 1..Len(mergeCalls) :
           \E k \in 1..Len(results) :
               results[k].success /\ results[k].branch = mergeCalls[c].branch
    /\ \A b \in merged :
           \E k \in 1..Len(results) : results[k].success /\ results[k].branch = b

\* a run is over in which a slot failed to get its workspace, another slot
\* succeeded and was merged, and every task of the snapshot was dispatched
C23_Witness ==
    /\ pc = "done"
    /\ FailedResults # {}
    /\ merged # {}
    /\ Len(allTasks) >= 2
    /\ Len(dispatched) = Len(allTasks)

\* the document with its first pending line of text exactly t turned to
\* done, or the document itself when it has no such line
MdMarkedExactly(c, t) ==
    LET lines == SplitLines(c)
        hits == {k \in 1..Len(lines) : lines[k] = <<TodoMark, SP>> \o t}
    IN IF hits = {} THEN c
       ELSE LET k == CHOOSE x \in hits : \A y \in hits : x <= y
            IN JoinLines([lines EXCEPT ![k] = <<DoneMark, SP>> \o t])

\* C24: markComplete(t) turns the marker of the first pending line whose text
\* is exactly t to done, keeps that line's text, and leaves every other line
\* as it was; with no such line the document is unchanged
C24_MarkCompleteFrame ==
    mdOp = "markComplete" => content = MdMarkedExactly(mdBefore, mdArg)

DispatchedBranch(k) ==
    WorktreeBranch(dispatched[k].task, dispatched[k].agentNum)

\* C25: no two slots dispatched in one run are bound to the same branch name
C25_BranchNamesUniqueInRun ==
    \A j, k \in 1..Len(dispatched) :
        j # k => DispatchedBranch(j) # DispatchedBranch(k)

\* C26: mergeBranch() returns true exactly when the call merged the branch
\* into the base: a call that returns false left the base as it was
C26_MergeResultMatchesBase ==
    \A k \in 1..Len(mergeCalls) :
        mergeCalls[k].returned = mergeCalls[k].baseChanged

\* C27: no mergeBranch() call starts while a merge that stopped on conflicts
\* is still in progress, and every abortMerge() call has a merge in progress
\* to abort
C27_NoMergeDuringUnabortedMerge ==
    /\ \A k \in 1..Len(mergeCalls) : mergeCalls[k].during = NoMerge
    /\ \A k \in 1..Len(aborts) : aborts[k].during # NoMerge

\* C28: for a title t that getRemainingTasks() contains, markComplete(t)
\* takes countRemaining() down by exactly 1 and countCompleted() up by exactly
\* 1, and changes nothing but the completed flag of one pending task titled t
C28_YamlMarkCompleteMovesOneTask ==
    LET before == YamlParseFile(mdBefore)
        after == YamlParseFile(content)
    IN (mdOp = "markComplete" /\ SeqContains(YamlGetRemainingTasks(before), mdArg))
       => /\ YamlCountRemaining(after) = YamlCountRemaining(before) - 1
          /\ YamlCountCompleted(after) = YamlCountCompleted(before) + 1
          /\ \E k \in 1..Len(before) :
                 /\ before[k].title = mdArg /\ ~before[k].completed
                 /\ after = [before EXCEPT ![k].completed = TRUE]

\* the titles of the tasks of data at the positions in P, in document order
RECURSIVE TitlesAt(_, _)
TitlesAt(data, P) ==
    IF P = {} THEN <<>>
    ELSE LET k == CHOOSE x \in P : \A y \in P : x <= y
         IN <<data[k].title>> \o TitlesAt(data, P \ {k})

\* getTasksByGroup(g) for each g of gs in turn, one after the other
RECURSIVE TasksOfGroups(_, _)
TasksOfGroups(data, gs) ==
    IF gs = <<>> THEN <<>>
    ELSE YamlGetTasksByGroup(data, Head(gs)) \o TasksOfGroups(data, Tail(gs))

\* C29: getTasksByGroup(g) is the incomplete tasks whose group (0 when
\* missing) is g, in document order, and getTasksByGroup(g) over the groups of
\* getParallelGroups() holds every remaining task exactly once
C29_GroupsPartitionRemaining ==
    LET data == YamlParseFile(content)
        pending(g) == {k \in 1..Len(data) :
                          /\ ~data[k].completed
                          /\ (IF data[k].parallel_group = Undefined THEN 0
                              ELSE data[k].parallel_group[1]) = g}
        all == TasksOfGroups(data, YamlGetParallelGroups(data))
        remaining == YamlGetRemainingTasks(data)
    IN /\ \A g \in {0, 1, 10} :
              YamlGetTasksByGroup(data, g) = TitlesAt(data, pending(g))
       /\ Len(all) = Len(remaining)
       /\ \A k \in 1..Len(remaining) :
              OccurrencesOf(all, remaining[k]) = OccurrencesOf(remaining, remaining[k])

\* the file was read with a pending task of group 10 ahead of a pending task
\* without a group: the groups in turn give the two pending tasks in the
\* other order
C29_Witness ==
    LET data == YamlParseFile(content)
    IN /\ mdOp = "parseFile" /\ yamlFile = data
       /\ YamlGetParallelGroups(data) = <<0, 10>>
       /\ TasksOfGroups(data, <<0, 10>>) # YamlGetRemainingTasks(data)
       /\ Len(YamlGetRemainingTasks(data)) = 2

\* the runAgent() calls of the runBatches() call in progress
CurrentCall == {k \in 1..Len(dispatched) : dispatched[k].group = group}

SlotMoves ==
    { <<"creating", "adding">>, <<"creating", "resolved">>,
      <<"adding", "delegated">>, <<"adding", "resolved">>,
      <<"delegated", "succeeded">>, <<"succeeded", "marking">>,
      <<"marking", "cleanup">>, <<"cleanup", "resolved">> }

\* the slots that stand in both states of a step and moved in it
MovedSlots ==
    {k \in 1..Len(slots) :
        /\ k \in 1..Len(slots')
        /\ slots'[k].id = slots[k].id
        /\ slots'[k].st # slots[k].st}

\* C31: every slot moves only along Pending -> WorkspaceCreating ->
\* {Failed | Delegated} -> {Succeeded | Failed} -> Cleanup -> Done: its task
\* is marked complete only after its workspace was created and the
\* delegation succeeded, a slot whose workspace was created is done only
\* after its cleanup, and the slots of a batch leave only when all are done
C31_SlotStateMachine ==
    [][/\ \A k \in MovedSlots :
            /\ <<slots[k].st, slots'[k].st>> \in SlotMoves
            /\ slots'[k].st = "marking" =>
                  slots[k].success /\ slots[k].branch # NoBranch
            /\ (slots'[k].st = "resolved" /\ slots[k].branch # NoBranch) =>
                  slots[k].st = "cleanup"
       /\ (slots # <<>> /\ slots' = <<>> /\ pc = "flight") => AllResolved
      ]_vars

\* ---------------------------------------------------------------------------
\* the open issues of the tracker, in list order
GhOpenIssues == SelectSeq(ghIssues, LAMBDA x : x.open)

\* the other issues are as they were, and issue x is as it was or closed
GhOnlyClosed(x) ==
    /\ Len(ghIssues') = Len(ghIssues)
    /\ \A k \in 1..Len(ghIssues) :
          \/ ghIssues'[k] = ghIssues[k]
          \/ /\ ghIssues[k].number = x.number
             /\ ghIssues'[k] = [ghIssues[k] EXCEPT !.open = FALSE]

\* C32: every identity getRemainingTasks() returns is "<issue-id>:<title>",
\* and markComplete of it issues a close for exactly that issue id and no
\* other issue, also when the title itself holds ":" characters
C32_IssueIdentityRoundTrip ==
    [][/\ (lastCall'.op = "getRemainingTasks" /\ ~lastCall'.failed) =>
            /\ Len(lastCall'.result) = Len(GhOpenIssues)
            /\ \A k \in 1..Len(GhOpenIssues) :
                  /\ lastCall'.result[k] =
                        NumberToString(GhOpenIssues[k].number) \o <<":">>
                            \o GhOpenIssues[k].title
                  /\ GhIssueNum(lastCall'.result[k]) =
                        NumberToString(GhOpenIssues[k].number)
       /\ \A k \in 1..Len(GhOpenIssues) :
            (/\ lastCall'.op = "markComplete"
             /\ lastCall'.task = GhTaskText(GhOpenIssues[k])) =>
               /\ lastCall'.issueNum = NumberToString(GhOpenIssues[k].number)
               /\ GhOnlyClosed(GhOpenIssues[k])
      ]_vars

\* issue 12 with the title b:c was marked complete by its identity and is
\* closed, and the other issue of the tracker is still open
C32_Witness ==
    /\ lastCall.op = "markComplete"
    /\ lastCall.task = <<"1", "2", ":", "b", ":", "c">>
    /\ lastCall.issueNum = <<"1", "2">>
    /\ ~lastCall.raised
    /\ \E j, k \in 1..Len(ghIssues) :
          /\ ghIssues[k].number = 12 /\ ghIssues[k].title = <<"b", ":", "c">>
          /\ ~ghIssues[k].open
          /\ ghIssues[j].number = 1 /\ ghIssues[j].open

\* ---------------------------------------------------------------------------
\* the tokens of parts that are a recognized flag or the value of a
\* value-taking flag, from position p
RECURSIVE RecognizedFrom(_, _)
RecognizedFrom(parts, p) ==
    IF p > Len(parts) THEN <<>>
    ELSE IF parts[p] \in ValueFlags
    THEN SubSeq(parts, p, Min(p + 1, Len(parts)))
            \o RecognizedFrom(parts, p + 2)
    ELSE IF parts[p] \in SwitchFlags
    THEN <<parts[p]>> \o RecognizedFrom(parts, p + 1)
    ELSE RecognizedFrom(parts, p + 1)

\* C33: parseArgs yields for a token sequence the configuration it yields
\* for the sequence without the tokens that are neither a recognized flag
\* nor the value of a value-taking flag
C33_UnrecognizedTokensIgnored ==
    lastCall.op = "parseArgs" =>
        lastCall.config = parseArgs(RecognizedFrom(argv, 1))

\* an options text with an unrecognized word between two recognized flags
\* was parsed, and both flags took effect
C33_Witness ==
    /\ lastCall.op = "parseArgs"
    /\ argv = <<<<"--parallel">>, <<"x">>, <<"--fast">>>>
    /\ lastCall.config.parallel = <<TRUE>>
    /\ lastCall.config.skipTests = <<TRUE>>

\* ---------------------------------------------------------------------------
\* the invocations that initialize a run in this step
Initializing ==
    {n \in 1..Len(startCalls) :
        startCalls'[n].initialized /\ ~startCalls[n].initialized}

\* the invocations that enter startLoop() in this step with the running
\* flag set
EnteringWhileRunning ==
    {n \in 1..Len(startCalls) :
        running /\ startCalls[n].st = "none" /\ startCalls'[n].st # "none"}

\* C34: at most one run is active per plugin instance: a start invoked
\* while the running flag is set is rejected without changing configuration
\* or run state, and of two start invocations, however their steps
\* interleave, no one initializes a run while a run is active
C34_RunMutualExclusion ==
    [][/\ \A n \in EnteringWhileRunning :
             /\ startCalls'[n].st = "returned"
             /\ ~startCalls'[n].passed
             /\ UNCHANGED <<config, ctlState, tracker>>
       /\ \A n \in Initializing : ~running
      ]_vars

\* ---------------------------------------------------------------------------
\* C35: when createTaskBranch returns, with the branch name or with the
\* empty string, the local changes that existed before the call are in the
\* working copy again and none is left in the stash, and the stash entries
\* that existed before the call are all still there
C35_StashDiscipline ==
    lastCall.op = "createTaskBranch" =>
        /\ repo.changes = lastCall.before.changes
        /\ repo.stash = lastCall.before.stash

\* ---------------------------------------------------------------------------
\* C36: for every configuration parseArgs gives (every --max-parallel value
\* gives maxParallel >= 1) and every backlog, a run in which every call
\* returns comes to its end after finitely many batches
C36_RunTerminates ==
    /\ [](config.maxParallel >= 1)
    /\ <>(pc \in {"done", "thrown"})

\* ---------------------------------------------------------------------------
\* C37: for every checklist, countRemaining() is the length of
\* getRemainingTasks() and countCompleted() is the number of completed tasks
\* of getAllTasks(), so that the completion check (countRemaining() = 0)
\* is true exactly when the next-task lookup finds no task
C37_ChecklistCountsConsistent ==
    /\ MdCountRemaining(content) = Len(MdGetRemainingTasks(content))
    /\ MdCountCompleted(content) =
          Len(SelectSeq(MdGetAllTasks(content), LAMBDA t : t.completed))
    /\ (MdCountRemaining(content) = 0) <=> (getNextTask = Null)

\* ---------------------------------------------------------------------------
\* C38: a session.idle event that arrives while the running flag is set
\* stops the run (running false, current task cleared) if and only if the
\* backlog counts zero remaining tasks; with the flag not set, or with tasks
\* remaining, it changes no run state.  So a running session whose backlog
\* is fully marked complete is eventually not running.
C38_IdleAutoStop ==
    /\ [][lastCall'.op = "session.idle" /\ lastCall' # lastCall =>
            IF running /\ MdCountRemaining(content) = 0
            THEN ~running' /\ currentTask' = Null /\ iteration' = iteration
                 /\ completedBranches' = completedBranches
            ELSE UNCHANGED <<ctlState, config, tracker>>]_vars
    /\ (running /\ MdCountRemaining(content) = 0) ~> ~running

\* the session was started, a task was handed out, every task of the
\* checklist is marked complete, and the idle event that followed stopped
\* the session
C38_Witness ==
    /\ lastCall.op = "session.idle"
    /\ lastCall.stopLoop
    /\ ~running
    /\ currentTask = Null
    /\ iteration >= 1
    /\ MdCountCompleted(content) >= 1
    /\ MdCountRemaining(content) = 0

====
